---- MODULE Spec2Model ----
(***************************************************************************)
(* Lap segmentation of the Forza telemetry dashboard: the effect of the    *)
(* useLapManager hook, run once per telemetry sample, with the gate        *)
(* geometry helpers it shares with LapComparison; and the telemetry        *)
(* server, parseDashPacket and the UDP and WebSocket handlers.             *)
(*                                                                         *)
(* Units.  Times (LastLap, CurrentRaceTime, CurrentLap, finalTime) are in  *)
(* tenths of a second, so the code's 0.5 s threshold is 5.  Distances and  *)
(* positions are whole metres.  A trace point's speed is kept in units of  *)
(* 1e-5 mph, so the code's factor 2.23694 is 223694.  A corner's avgSteer  *)
(* (cSteerSum / cSteerCount) is kept as the pair <<sum, count>>.  A        *)
(* payload of the server carries floats, seconds among them; SampleOf      *)
(* counts them in these units, for the payloads that are whole numbers of  *)
(* them.                                                                   *)
(*                                                                         *)
(* The display-only fields of a trace point (accel, gear, rpm) and the     *)
(* playerName and date strings of a lap are copied through by the code and *)
(* read by nothing modelled here; they are left out of the records.  The   *)
(* id of a lap, the string of its lap number and Date.now(), is the pair   *)
(* of the two.  The laps of a session differ in their lap numbers; the     *)
(* clock of every one of them is SessionNow here, later than the clock of  *)
(* every lap saved in an earlier session.                                  *)
(* The effect's first test, !telemetryData, returns before any sample has  *)
(* arrived; every step of the model processes a sample that exists.        *)
(*                                                                         *)
(* Arrays.  Sequences are values here, arrays are objects in the code.     *)
(* lapLog keeps the identity of the two arrays of the in-progress lap and  *)
(* every emitted lap keeps those of its own, numbered in order of          *)
(* allocation.                                                             *)
(*                                                                         *)
(* Buffers.  A datagram is its length and its bytes; a read decodes the    *)
(* bytes at its offset in the type of the read method, whatever was        *)
(* written there.  Server times are whole milliseconds (Date.now()).       *)
(*                                                                         *)
(* Mock sender.  Its speed is kept in halves (it changes by 0.5 a run);    *)
(* its dist, posX, posZ and currLapTime are doubles, each sum rounded as   *)
(* the code's is.  writeFloatLE stores the float nearest to the double.    *)
(***************************************************************************)
EXTENDS Integers, Sequences, FiniteSets, TLC

VARIABLES
    current,        \* currentLapRef.current: the in-progress lap
    lapTracker,     \* lapOffsetRef.current: highestRawLap, offset
    laps,           \* the laps state (useState) of the hook
    effectiveLap,   \* history: effectiveLap computed for the last accepted sample (-1: none yet)
    effSeen,        \* history: effective lap numbers of all accepted samples
    emitted,        \* history: every lap handed to setLaps, with the gate count and pause seen
    discarded,      \* history: lap numbers finalized but not saved (finalTime <= 0.5)
    pausedSeen,     \* history: an accepted sample of the in-progress lap carried _gamePaused
    input,          \* history: whether the last step ran the effect, and on what kind of sample
    lapLog,         \* history: clock, odometer, start position and array identities of the in-progress lap
    lastBroadcastTime,  \* server: Date.now() of the last datagram that passed the throttle
    isReceiving,    \* server: the first datagram has been logged
    clients,        \* server: the array of connected WebSockets
    readyState,     \* ws library: readyState of every WebSocket
    wall,           \* Date.now() when the server last ran a handler
    delivered,      \* history: the payloads each WebSocket was sent, in order
    handled,        \* history: what the message handler did with the last datagram and the one before, and Date.now() of every broadcast
    probe,          \* a function applied to arguments: the arguments and the result
    mock,           \* mock sender: its let variables
    packet,         \* mock sender: the Buffer packet
    telemetryData,  \* useTelemetry: the data state as set last, and the runs of the effect of useLapManager on it (0: not rendered yet)
    received,       \* how many payloads sent to the browser's WebSocket its onmessage has handled
    connectionState,    \* useTelemetry: the connectionState state as set last
    sinceData,      \* useTelemetry: seconds since lastDataTime.current, up to 3
    staleTimer,     \* useTelemetry: staleTimer.current, a timeout id (0: undefined)
    reconnectTimer, \* useTelemetry: the effect's reconnectTimer, a timeout id (0: undefined)
    wsState,        \* useTelemetry: the state of the effect's WebSocket ws
    timers,         \* browser: the pending timeouts, by id: what they run and the seconds left
    mounted,        \* useTelemetry: the effect's cleanup has not run
    selectedLaps,   \* LapHistory: the selectedLaps state, a list of lap ids
    lapIds,         \* LapHistory: the ids of the laps prop
    historyLog,     \* history: the last LapHistory event, the selection before it, and the onCompare call
    lapsFetch       \* page: the fetch('/api/laps') of the mount effect is "pending" or "done"

lmVars == <<current, lapTracker, laps>>
histVars == <<effectiveLap, effSeen, emitted, discarded, pausedSeen, input, lapLog>>
srvVars == <<lastBroadcastTime, isReceiving, clients, readyState, wall, delivered, handled>>
mockVars == <<mock, packet>>
connVars == <<connectionState, sinceData, staleTimer, reconnectTimer, wsState, timers, mounted>>
selVars == <<selectedLaps, lapIds, historyLog>>
uiVars == <<telemetryData, received, connVars, selVars, lapsFetch>>
vars == <<current, lapTracker, laps, effectiveLap, effSeen, emitted, discarded, pausedSeen, input,
          lapLog, lastBroadcastTime, isReceiving, clients, readyState, wall, delivered, handled,
          probe, mock, packet, telemetryData, received,
          connectionState, sinceData, staleTimer, reconnectTimer, wsState, timers, mounted,
          selectedLaps, lapIds, historyLog, lapsFetch>>

-----------------------------------------------------------------------------
(* Program constants *)

NoLap == -1                 \* sentinel lapNumber / highestRawLap
MinLapTime == 5             \* finalTime > 0.5 (tenths of a second)
PointSpacing == 10          \* a trace point every 10 metres
CheckpointSpacing == 500    \* a checkpoint every 500 metres
MinPitPoints == 10          \* points.length > 10
BrakeThreshold == 15        \* (p.brake || 0) > 15
SteerThreshold == 20        \* Math.abs(p.steer || 0) > 20
MinCornerLength == 20       \* length > 20
MphFactor == 223694         \* Speed * 2.23694, in 1e-5 mph

-----------------------------------------------------------------------------
(* Gate table.  gates.json is data loaded at build time; this is a table   *)
(* of the shape the code reads (index, center, normal, p1, p2): three      *)
(* gates across a track that runs along +x at z = 2.                       *)

Pt(x, z) == [x |-> x, z |-> z]

Gate(i, gx) ==
    [index |-> i, center |-> Pt(gx, 2), normal |-> Pt(1, 0),
     p1 |-> Pt(gx, 0), p2 |-> Pt(gx, 4), distance |-> 100 * gx]

trackGates == << Gate(0, 2), Gate(1, 4), Gate(2, 6) >>

GateCount == Len(trackGates)

\* trackGates[g] of the code (0-based)
GateAt(g) == trackGates[g + 1]

-----------------------------------------------------------------------------
(* Geometry helpers *)

\* ccw with >= in place of >
ccw_NonStrict(A, B, C) ==
    (C.z - A.z) * (B.x - A.x) >= (B.z - A.z) * (C.x - A.x)

ccw(A, B, C) == (C.z - A.z) * (B.x - A.x) > (B.z - A.z) * (C.x - A.x)

segmentsIntersect(A, B, C, D) ==
    /\ ccw(A, C, D) # ccw(B, C, D)
    /\ ccw(A, B, C) # ccw(A, B, D)

Abs(n) == IF n < 0 THEN -n ELSE n
Max(a, b) == IF a > b THEN a ELSE b
Min(a, b) == IF a < b THEN a ELSE b

-----------------------------------------------------------------------------
(* Lap-number rollover (LAP RESET OFFSET) *)

\* ResolveRollover with the reset's offset not accumulated (offset = highest + 1)
ResolveRollover_NoAccumulate(rawLap, lt) ==
    LET afterReset ==
            IF rawLap < lt.highestRawLap /\ lt.highestRawLap # NoLap
            THEN [highestRawLap |-> rawLap, offset |-> lt.highestRawLap + 1]
            ELSE lt
    IN  IF rawLap > afterReset.highestRawLap
        THEN [afterReset EXCEPT !.highestRawLap = rawLap]
        ELSE afterReset

\* ResolveRollover without the reset branch (only the running maximum)
ResolveRollover_NoReset(rawLap, lt) ==
    IF rawLap > lt.highestRawLap
    THEN [lt EXCEPT !.highestRawLap = rawLap]
    ELSE lt

\* lapTracker after the two ifs on rawLap
ResolveRollover(rawLap, lt) ==
    LET afterReset ==
            IF rawLap < lt.highestRawLap /\ lt.highestRawLap # NoLap
            THEN [highestRawLap |-> rawLap,
                  offset |-> lt.highestRawLap + 1 + lt.offset]
            ELSE lt
    IN  IF rawLap > afterReset.highestRawLap
        THEN [afterReset EXCEPT !.highestRawLap = rawLap]
        ELSE afterReset

\* effectiveLap = rawLap + lapTracker.offset, after the rollover update
EffectiveLapOf(rawLap, lt) == rawLap + ResolveRollover(rawLap, lt).offset

-----------------------------------------------------------------------------
(* Gate cursor *)

GateDot(g, x, z) ==
    (x - GateAt(g).center.x) * GateAt(g).normal.x
        + (z - GateAt(g).center.z) * GateAt(g).normal.z

\* ScanStartGate that also skips a gate the car is exactly on (dot >= 0)
RECURSIVE ScanStartGate_OnLine(_, _, _)
ScanStartGate_OnLine(g, x, z) ==
    IF g < GateCount /\ GateDot(g, x, z) >= 0
    THEN ScanStartGate_OnLine(g + 1, x, z)
    ELSE g

\* the for loop over g: startGate after the scan that began at g
RECURSIVE ScanStartGate(_, _, _)
ScanStartGate(g, x, z) ==
    IF g < GateCount /\ GateDot(g, x, z) > 0
    THEN ScanStartGate(g + 1, x, z)
    ELSE g

\* StartGateIdx without the wrap to gate 0 when every gate is behind the car
StartGateIdx_NoWrap(x, z) == ScanStartGate(0, x, z)

\* StartGateIdx without the scan: every lap expects gate 0 first
StartGateIdx_NoScan(x, z) == 0

\* current.nextGateIdx = startGate < trackGates.length ? startGate : 0
StartGateIdx(x, z) ==
    LET startGate == ScanStartGate(0, x, z)
    IN  IF startGate < GateCount THEN startGate ELSE 0

\* LapComparison.findStartGateIdx
findStartGateIdx(firstPoint) ==
    LET g == ScanStartGate(0, firstPoint.x, firstPoint.z)
    IN  IF g < GateCount THEN g ELSE 0

\* AdvanceGates that looks at every gate, not only the next expected one: the
\* cursor moves behind the last gate the segment crosses
AdvanceGates_AnyGate(idx, prevPoint, newPoint) ==
    LET hit == { g \in 0 .. GateCount - 1 :
                   segmentsIntersect(prevPoint, newPoint, GateAt(g).p1, GateAt(g).p2) }
    IN  IF hit = {} THEN idx
        ELSE 1 + CHOOSE g \in hit : \A h \in hit : h <= g

\* the while loop of GATE TRACKING: nextGateIdx after it, starting from idx
RECURSIVE AdvanceGates(_, _, _)
AdvanceGates(idx, prevPoint, newPoint) ==
    IF idx < GateCount
       /\ segmentsIntersect(prevPoint, newPoint, GateAt(idx).p1, GateAt(idx).p2)
    THEN AdvanceGates(idx + 1, prevPoint, newPoint)
    ELSE idx

-----------------------------------------------------------------------------
(* LapComparison.getLapGateTimes *)

\* the inner while loop: the crossings pushed for one segment, from gate idx on
RECURSIVE CrossingsOfSegment(_, _, _)
CrossingsOfSegment(idx, ptPrev, ptCurr) ==
    IF idx < GateCount
       /\ segmentsIntersect(ptPrev, ptCurr, GateAt(idx).p1, GateAt(idx).p2)
    THEN <<[gateIndex |-> GateAt(idx).index, gateDist |-> GateAt(idx).distance,
            time |-> ptCurr.time, speed |-> ptCurr.speed]>>
         \o CrossingsOfSegment(idx + 1, ptPrev, ptCurr)
    ELSE <<>>

\* the for loop from code index i (lapPoints[i] is lapPoints[i + 1] here)
RECURSIVE LapGateLoop(_, _, _)
LapGateLoop(lapPoints, i, nextGateIdx) ==
    IF i >= Len(lapPoints) THEN <<>>
    ELSE LET got == CrossingsOfSegment(nextGateIdx, lapPoints[i], lapPoints[i + 1])
             nxt == nextGateIdx + Len(got)
         IN  IF nxt >= GateCount THEN got
             ELSE got \o LapGateLoop(lapPoints, i + 1, nxt)

getLapGateTimes(lapPoints) ==
    IF Len(lapPoints) < 2 THEN <<>>
    ELSE LapGateLoop(lapPoints, 1, findStartGateIdx(lapPoints[1]))

-----------------------------------------------------------------------------
(* Corner detection, run over the finished lap's points *)

IsCornerActive(p) == p.brake > BrakeThreshold \/ Abs(p.steer) > SteerThreshold

CornerInit ==
    [inCorner |-> FALSE, cStart |-> 0, cMaxBrake |-> 0, cMinSpeed |-> 0,
     cSteerSum |-> 0, cSteerCount |-> 0, cornerIdx |-> 1, corners |-> <<>>]

\* CornerStep that advances cornerIdx for a region it discards as well
CornerStep_IndexOnDiscard(c, p) ==
    IF IsCornerActive(p)
    THEN LET opening == ~c.inCorner
         IN  [c EXCEPT !.inCorner = TRUE,
                       !.cStart = IF opening THEN p.d ELSE c.cStart,
                       !.cMaxBrake = Max(IF opening THEN 0 ELSE c.cMaxBrake, p.brake),
                       !.cMinSpeed = IF opening THEN p.speed ELSE Min(c.cMinSpeed, p.speed),
                       !.cSteerSum = (IF opening THEN 0 ELSE c.cSteerSum) + p.steer,
                       !.cSteerCount = (IF opening THEN 0 ELSE c.cSteerCount) + 1]
    ELSE IF c.inCorner
    THEN IF p.d - c.cStart > MinCornerLength
         THEN [c EXCEPT !.inCorner = FALSE,
                        !.cornerIdx = c.cornerIdx + 1,
                        !.corners = Append(c.corners,
                            [index |-> c.cornerIdx, startDist |-> c.cStart,
                             endDist |-> p.d, maxBrake |-> c.cMaxBrake,
                             minSpeed |-> c.cMinSpeed,
                             avgSteer |-> <<c.cSteerSum, c.cSteerCount>>])]
         ELSE [c EXCEPT !.inCorner = FALSE, !.cornerIdx = c.cornerIdx + 1]
    ELSE c

\* CornerStep that does not clear the steering sum and count when a corner
\* opens
CornerStep_KeepSteerSum(c, p) ==
    IF IsCornerActive(p)
    THEN LET opening == ~c.inCorner
         IN  [c EXCEPT !.inCorner = TRUE,
                       !.cStart = IF opening THEN p.d ELSE c.cStart,
                       !.cMaxBrake = Max(IF opening THEN 0 ELSE c.cMaxBrake, p.brake),
                       !.cMinSpeed = IF opening THEN p.speed ELSE Min(c.cMinSpeed, p.speed),
                       !.cSteerSum = c.cSteerSum + p.steer,
                       !.cSteerCount = c.cSteerCount + 1]
    ELSE IF c.inCorner
    THEN IF p.d - c.cStart > MinCornerLength
         THEN [c EXCEPT !.inCorner = FALSE,
                        !.cornerIdx = c.cornerIdx + 1,
                        !.corners = Append(c.corners,
                            [index |-> c.cornerIdx, startDist |-> c.cStart,
                             endDist |-> p.d, maxBrake |-> c.cMaxBrake,
                             minSpeed |-> c.cMinSpeed,
                             avgSteer |-> <<c.cSteerSum, c.cSteerCount>>])]
         ELSE [c EXCEPT !.inCorner = FALSE]
    ELSE c

\* CornerStep with length >= 20 in place of length > 20
CornerStep_AtLeast(c, p) ==
    IF IsCornerActive(p)
    THEN LET opening == ~c.inCorner
         IN  [c EXCEPT !.inCorner = TRUE,
                       !.cStart = IF opening THEN p.d ELSE c.cStart,
                       !.cMaxBrake = Max(IF opening THEN 0 ELSE c.cMaxBrake, p.brake),
                       !.cMinSpeed = IF opening THEN p.speed ELSE Min(c.cMinSpeed, p.speed),
                       !.cSteerSum = (IF opening THEN 0 ELSE c.cSteerSum) + p.steer,
                       !.cSteerCount = (IF opening THEN 0 ELSE c.cSteerCount) + 1]
    ELSE IF c.inCorner
    THEN IF p.d - c.cStart >= MinCornerLength
         THEN [c EXCEPT !.inCorner = FALSE,
                        !.cornerIdx = c.cornerIdx + 1,
                        !.corners = Append(c.corners,
                            [index |-> c.cornerIdx, startDist |-> c.cStart,
                             endDist |-> p.d, maxBrake |-> c.cMaxBrake,
                             minSpeed |-> c.cMinSpeed,
                             avgSteer |-> <<c.cSteerSum, c.cSteerCount>>])]
         ELSE [c EXCEPT !.inCorner = FALSE]
    ELSE c

\* one iteration of the for loop.  cMinSpeed = Infinity at the opening of a
\* corner is followed at once by Math.min(Infinity, p.speed) = p.speed.
CornerStep(c, p) ==
    IF IsCornerActive(p)
    THEN LET opening == ~c.inCorner
         IN  [c EXCEPT !.inCorner = TRUE,
                       !.cStart = IF opening THEN p.d ELSE c.cStart,
                       !.cMaxBrake = Max(IF opening THEN 0 ELSE c.cMaxBrake, p.brake),
                       !.cMinSpeed = IF opening THEN p.speed ELSE Min(c.cMinSpeed, p.speed),
                       !.cSteerSum = (IF opening THEN 0 ELSE c.cSteerSum) + p.steer,
                       !.cSteerCount = (IF opening THEN 0 ELSE c.cSteerCount) + 1]
    ELSE IF c.inCorner
    THEN IF p.d - c.cStart > MinCornerLength
         THEN [c EXCEPT !.inCorner = FALSE,
                        !.cornerIdx = c.cornerIdx + 1,
                        !.corners = Append(c.corners,
                            [index |-> c.cornerIdx, startDist |-> c.cStart,
                             endDist |-> p.d, maxBrake |-> c.cMaxBrake,
                             minSpeed |-> c.cMinSpeed,
                             avgSteer |-> <<c.cSteerSum, c.cSteerCount>>])]
         ELSE [c EXCEPT !.inCorner = FALSE]
    ELSE c

RECURSIVE CornerLoop(_, _, _)
CornerLoop(c, points, i) ==
    IF i > Len(points) THEN c
    ELSE CornerLoop(CornerStep(c, points[i]), points, i + 1)

DetectCorners(points) == CornerLoop(CornerInit, points, 1).corners

-----------------------------------------------------------------------------
(* The effect of useLapManager, piece by piece.  t is telemetryData.       *)

\* RaceActive with the early return dropped
RaceActive_Always(t) == TRUE

\* not (telemetryData.IsRaceOn === 0)
RaceActive(t) == t.IsRaceOn # 0

\* AtOrigin with the early return dropped
AtOrigin_Never(t) == FALSE

\* PositionX === 0 && PositionZ === 0
AtOrigin(t) == t.PositionX = 0 /\ t.PositionZ = 0

\* the sample passes both early returns
Accepted(t) == RaceActive(t) /\ ~AtOrigin(t)

\* Math.floor(trackGates.length * 0.5)
MinGatesRequired == GateCount \div 2

\* MissedTooMany that applies from 10 trace points on
MissedTooMany_FromTenPoints(cur) ==
    cur.gatesCrossed < MinGatesRequired /\ Len(cur.points) >= MinPitPoints

\* MissedTooMany with the gate comparison inverted
MissedTooMany_Inverted(cur) ==
    cur.gatesCrossed > MinGatesRequired /\ Len(cur.points) > MinPitPoints

MissedTooMany(cur) ==
    cur.gatesCrossed < MinGatesRequired /\ Len(cur.points) > MinPitPoints

\* LapTime whose fallback is the race clock itself (start time not subtracted)
LapTime_FromRaceStart(t, cur) ==
    IF t.LastLap > 0 THEN t.LastLap ELSE t.CurrentRaceTime

\* lapTime = LastLap > 0 ? LastLap : CurrentRaceTime - current.startTime
LapTime(t, cur) ==
    IF t.LastLap > 0 THEN t.LastLap ELSE t.CurrentRaceTime - cur.startTime

\* Date.now() as the effect reads it: a time of this session, later than
\* every Date.now() in the id of a lap that an earlier session stored
SessionNow == 3

\* `${lapNumber}-${now}`
LapId(lapNumber, now) == <<lapNumber, now>>

FinishedLap(t, cur) ==
    [id |-> LapId(cur.lapNumber, SessionNow),
     lapNumber |-> cur.lapNumber,
     finalTime |-> LapTime(t, cur),
     checkpoints |-> cur.checkpoints,
     invalid |-> (cur.invalid \/ MissedTooMany(cur)),
     points |-> cur.points,
     corners |-> DetectCorners(cur.points)]

\* SavesLap with the threshold of the first version of the hook (finalTime > 0)
SavesLap_Positive(lap) == lap.finalTime > 0

\* if (finishedLap.finalTime > 0.5)
SavesLap(lap) == lap.finalTime > MinLapTime

\* ResetLap that leaves gatesCrossed as the finished lap left it
ResetLap_KeepGatesCrossed(t, effLap) ==
    [lapNumber |-> effLap,
     startTime |-> t.CurrentRaceTime,
     startDistance |-> t.DistanceTraveled,
     checkpoints |-> <<>>,
     points |-> <<>>,
     invalid |-> FALSE,
     lastCheckpointDistance |-> t.DistanceTraveled,
     gatesCrossed |-> current.gatesCrossed,
     nextGateIdx |-> StartGateIdx(t.PositionX, t.PositionZ)]

\* ResetLap that leaves lastCheckpointDistance as the finished lap left it
ResetLap_KeepCheckpointBase(t, effLap) ==
    [lapNumber |-> effLap,
     startTime |-> t.CurrentRaceTime,
     startDistance |-> t.DistanceTraveled,
     checkpoints |-> <<>>,
     points |-> <<>>,
     invalid |-> FALSE,
     lastCheckpointDistance |-> current.lastCheckpointDistance,
     gatesCrossed |-> 0,
     nextGateIdx |-> StartGateIdx(t.PositionX, t.PositionZ)]

\* "Reset for new lap" and the start-gate scan
ResetLap(t, effLap) ==
    [lapNumber |-> effLap,
     startTime |-> t.CurrentRaceTime,
     startDistance |-> t.DistanceTraveled,
     checkpoints |-> <<>>,
     points |-> <<>>,
     invalid |-> FALSE,
     lastCheckpointDistance |-> t.DistanceTraveled,
     gatesCrossed |-> 0,
     nextGateIdx |-> StartGateIdx(t.PositionX, t.PositionZ)]

\* MarkPaused that follows the indicator instead of latching it
MarkPaused_NotSticky(t, cur) == [cur EXCEPT !.invalid = t.gamePaused]

\* if (telemetryData._gamePaused) current.invalid = true
MarkPaused(t, cur) ==
    IF t.gamePaused THEN [cur EXCEPT !.invalid = TRUE] ELSE cur

NewPoint(t, cur) ==
    [x |-> t.PositionX, z |-> t.PositionZ,
     d |-> t.DistanceTraveled - cur.startDistance,
     time |-> t.CurrentLap,
     speed |-> t.Speed * MphFactor,
     brake |-> t.Brake,
     steer |-> t.Steer]

\* PointDue without the spacing: a point is due when the car is not behind
\* the last one
PointDue_NoSpacing(t, cur) ==
    \/ Len(cur.points) = 0
    \/ t.DistanceTraveled - cur.startDistance >= cur.points[Len(cur.points)].d

\* PointDue with >= in place of > (a point exactly 10 m on is recorded)
PointDue_AtLeast(t, cur) ==
    \/ Len(cur.points) = 0
    \/ t.DistanceTraveled - cur.startDistance
           >= cur.points[Len(cur.points)].d + PointSpacing

\* the condition under which a trace point is recorded
PointDue(t, cur) ==
    \/ Len(cur.points) = 0
    \/ t.DistanceTraveled - cur.startDistance
           > cur.points[Len(cur.points)].d + PointSpacing

\* "Record Points" with the gate tracking inside it
RecordPoint(t, cur) ==
    IF PointDue(t, cur)
    THEN LET newPoint == NewPoint(t, cur)
             nextIdx == IF Len(cur.points) > 0
                        THEN AdvanceGates(cur.nextGateIdx,
                                          cur.points[Len(cur.points)], newPoint)
                        ELSE cur.nextGateIdx
         IN  [cur EXCEPT !.gatesCrossed = cur.gatesCrossed + (nextIdx - cur.nextGateIdx),
                         !.nextGateIdx = nextIdx,
                         !.points = Append(cur.points, newPoint)]
    ELSE cur

\* RecordCheckpoint with >= in place of > (a checkpoint exactly 500 m on)
RecordCheckpoint_AtLeast(t, cur) ==
    IF t.DistanceTraveled - cur.lastCheckpointDistance >= CheckpointSpacing
    THEN [cur EXCEPT !.checkpoints = Append(cur.checkpoints,
                          [distance |-> t.DistanceTraveled - cur.startDistance,
                           time |-> t.CurrentLap,
                           speed |-> t.Speed * MphFactor]),
                     !.lastCheckpointDistance = t.DistanceTraveled]
    ELSE cur

\* "Record Checkpoints"
RecordCheckpoint(t, cur) ==
    IF t.DistanceTraveled - cur.lastCheckpointDistance > CheckpointSpacing
    THEN [cur EXCEPT !.checkpoints = Append(cur.checkpoints,
                          [distance |-> t.DistanceTraveled - cur.startDistance,
                           time |-> t.CurrentLap,
                           speed |-> t.Speed * MphFactor]),
                     !.lastCheckpointDistance = t.DistanceTraveled]
    ELSE cur

\* current after the whole effect, for an accepted sample
NextCurrent(t, cur, effLap) ==
    RecordCheckpoint(t,
        RecordPoint(t,
            MarkPaused(t,
                IF effLap # cur.lapNumber THEN ResetLap(t, effLap) ELSE cur)))

\* Finalizes without the boundary test: every sample of a started lap closes it
Finalizes_EverySample(cur, effLap) == cur.lapNumber # NoLap

\* the lap boundary finalizes a lap (the in-progress lap is not the sentinel)
Finalizes(cur, effLap) == effLap # cur.lapNumber /\ cur.lapNumber # NoLap

\* SavedLaps that also saves a copy of the finished lap for every lap number
\* jumped over
SavedLaps_FillGap(t, cur, effLap) ==
    IF effLap # cur.lapNumber /\ cur.lapNumber # NoLap
       /\ FinishedLap(t, cur).finalTime > MinLapTime
    THEN IF effLap > cur.lapNumber
         THEN [i \in 1 .. (effLap - cur.lapNumber) |->
                  [FinishedLap(t, cur) EXCEPT !.lapNumber = cur.lapNumber + i - 1]]
         ELSE << FinishedLap(t, cur) >>
    ELSE << >>

\* AppendLaps that stores the finished lap in place of the list
AppendLaps_Replace(prev, saved) == IF saved = <<>> THEN prev ELSE saved

\* prev => [...prev, finishedLap], for the laps one run hands to setLaps
AppendLaps(prev, saved) == prev \o saved

\* the laps handed to setLaps(prev => [...prev, finishedLap]) by one run
SavedLaps(t, cur, effLap) ==
    IF Finalizes(cur, effLap) /\ SavesLap(FinishedLap(t, cur))
    THEN << FinishedLap(t, cur) >>
    ELSE << >>

-----------------------------------------------------------------------------
(* The telemetry server: parseDashPacket.  A buffer is its length and its   *)
(* bytes: at[o] is the byte at offset o, and a byte that is not in at is   *)
(* 0 (Buffer.alloc zero-fills).  A read of w bytes at offset o throws      *)
(* (RangeError) unless o + w <= length.                                    *)
(*                                                                         *)
(* Numbers.  An integer read is the integer.  A 4-byte float is the        *)
(* integer n when its value is n and |n| <= Float32Bits, and otherwise     *)
(* Float32Bits + b (negated when the sign bit is set), b being its bit     *)
(* pattern without the sign bit; every NaN is one value.  -0 is 0, as it   *)
(* is to === and to JSON.stringify.                                        *)

SledLength == 232           \* dashStart without padding; 58 fields of 4 bytes
PaddedLength == 324         \* hasPadding = buf.length >= 324
PaddedDashStart == 244      \* dashStart with the 12-byte padding
MinDashLength == 300        \* if (buf.length < 300) return sled
WearOffset == 80            \* wearStart = o + 80
WearLength == 20            \* buf.length >= wearStart + 20
MinPacketLength == 232      \* if (msg.length < 232) return
BROADCAST_HZ == 30

\* <<field, offset, width in bytes, read method>> of the reads of the Sled
\* section
SledLayout ==
    << <<"IsRaceOn", 0, 4, "Int32LE">>, <<"TimestampMS", 4, 4, "UInt32LE">>,
       <<"EngineMaxRpm", 8, 4, "FloatLE">>,
       <<"EngineIdleRpm", 12, 4, "FloatLE">>,
       <<"CurrentEngineRpm", 16, 4, "FloatLE">>,
       <<"AccelerationX", 20, 4, "FloatLE">>,
       <<"AccelerationY", 24, 4, "FloatLE">>,
       <<"AccelerationZ", 28, 4, "FloatLE">>,
       <<"VelocityX", 32, 4, "FloatLE">>, <<"VelocityY", 36, 4, "FloatLE">>,
       <<"VelocityZ", 40, 4, "FloatLE">>,
       <<"AngularVelocityX", 44, 4, "FloatLE">>,
       <<"AngularVelocityY", 48, 4, "FloatLE">>,
       <<"AngularVelocityZ", 52, 4, "FloatLE">>, <<"Yaw", 56, 4, "FloatLE">>,
       <<"Pitch", 60, 4, "FloatLE">>, <<"Roll", 64, 4, "FloatLE">>,
       <<"NormalizedSuspensionTravelFL", 68, 4, "FloatLE">>,
       <<"NormalizedSuspensionTravelFR", 72, 4, "FloatLE">>,
       <<"NormalizedSuspensionTravelRL", 76, 4, "FloatLE">>,
       <<"NormalizedSuspensionTravelRR", 80, 4, "FloatLE">>,
       <<"TireSlipRatioFL", 84, 4, "FloatLE">>,
       <<"TireSlipRatioFR", 88, 4, "FloatLE">>,
       <<"TireSlipRatioRL", 92, 4, "FloatLE">>,
       <<"TireSlipRatioRR", 96, 4, "FloatLE">>,
       <<"WheelRotationSpeedFL", 100, 4, "FloatLE">>,
       <<"WheelRotationSpeedFR", 104, 4, "FloatLE">>,
       <<"WheelRotationSpeedRL", 108, 4, "FloatLE">>,
       <<"WheelRotationSpeedRR", 112, 4, "FloatLE">>,
       <<"WheelOnRumbleStripFL", 116, 4, "Int32LE">>,
       <<"WheelOnRumbleStripFR", 120, 4, "Int32LE">>,
       <<"WheelOnRumbleStripRL", 124, 4, "Int32LE">>,
       <<"WheelOnRumbleStripRR", 128, 4, "Int32LE">>,
       <<"WheelInPuddleDepthFL", 132, 4, "FloatLE">>,
       <<"WheelInPuddleDepthFR", 136, 4, "FloatLE">>,
       <<"WheelInPuddleDepthRL", 140, 4, "FloatLE">>,
       <<"WheelInPuddleDepthRR", 144, 4, "FloatLE">>,
       <<"SurfaceRumbleFL", 148, 4, "FloatLE">>,
       <<"SurfaceRumbleFR", 152, 4, "FloatLE">>,
       <<"SurfaceRumbleRL", 156, 4, "FloatLE">>,
       <<"SurfaceRumbleRR", 160, 4, "FloatLE">>,
       <<"TireSlipAngleFL", 164, 4, "FloatLE">>,
       <<"TireSlipAngleFR", 168, 4, "FloatLE">>,
       <<"TireSlipAngleRL", 172, 4, "FloatLE">>,
       <<"TireSlipAngleRR", 176, 4, "FloatLE">>,
       <<"TireCombinedSlipFL", 180, 4, "FloatLE">>,
       <<"TireCombinedSlipFR", 184, 4, "FloatLE">>,
       <<"TireCombinedSlipRL", 188, 4, "FloatLE">>,
       <<"TireCombinedSlipRR", 192, 4, "FloatLE">>,
       <<"SuspensionTravelMetersFL", 196, 4, "FloatLE">>,
       <<"SuspensionTravelMetersFR", 200, 4, "FloatLE">>,
       <<"SuspensionTravelMetersRL", 204, 4, "FloatLE">>,
       <<"SuspensionTravelMetersRR", 208, 4, "FloatLE">>,
       <<"CarOrdinal", 212, 4, "Int32LE">>, <<"CarClass", 216, 4, "Int32LE">>,
       <<"CarPerformanceIndex", 220, 4, "Int32LE">>,
       <<"DrivetrainType", 224, 4, "Int32LE">>,
       <<"NumCylinders", 228, 4, "Int32LE">> >>

\* the reads of the Dash extras, offsets relative to o
DashLayout ==
    << <<"PositionX", 0, 4, "FloatLE">>, <<"PositionY", 4, 4, "FloatLE">>,
       <<"PositionZ", 8, 4, "FloatLE">>, <<"Speed", 12, 4, "FloatLE">>,
       <<"Power", 16, 4, "FloatLE">>, <<"Torque", 20, 4, "FloatLE">>,
       <<"TireTempFL", 24, 4, "FloatLE">>, <<"TireTempFR", 28, 4, "FloatLE">>,
       <<"TireTempRL", 32, 4, "FloatLE">>, <<"TireTempRR", 36, 4, "FloatLE">>,
       <<"Boost", 40, 4, "FloatLE">>, <<"Fuel", 44, 4, "FloatLE">>,
       <<"DistanceTraveled", 48, 4, "FloatLE">>,
       <<"BestLap", 52, 4, "FloatLE">>, <<"LastLap", 56, 4, "FloatLE">>,
       <<"CurrentLap", 60, 4, "FloatLE">>,
       <<"CurrentRaceTime", 64, 4, "FloatLE">>,
       <<"LapNumber", 68, 2, "UInt16LE">>, <<"RacePosition", 70, 1, "UInt8">>,
       <<"Accel", 71, 1, "UInt8">>, <<"Brake", 72, 1, "UInt8">>,
       <<"Clutch", 73, 1, "UInt8">>, <<"HandBrake", 74, 1, "UInt8">>,
       <<"Gear", 75, 1, "UInt8">>, <<"Steer", 76, 1, "Int8">>,
       <<"NormalizedDrivingLine", 77, 1, "Int8">>,
       <<"NormalizedAIBrakeDifference", 78, 1, "Int8">> >>

\* the reads of the tire wear and track ordinal, offsets relative to wearStart
ExtrasLayout ==
    << <<"TireWearFL", 0, 4, "FloatLE">>, <<"TireWearFR", 4, 4, "FloatLE">>,
       <<"TireWearRL", 8, 4, "FloatLE">>, <<"TireWearRR", 12, 4, "FloatLE">>,
       <<"TrackOrdinal", 16, 4, "Int32LE">> >>

FieldNames(layout) == { layout[i][1] : i \in 1 .. Len(layout) }

OffsetOf(layout, name) ==
    LET i == CHOOSE k \in 1 .. Len(layout) : layout[k][1] = name
    IN  layout[i][2]

RECURSIVE Pow2(_)
\* 2 ** n
Pow2(n) == IF n = 0 THEN 1 ELSE 2 * Pow2(n - 1)

\* Float32Bits + b: the 4-byte float whose bits, sign bit apart, are b
Float32Bits == 2000000

\* the bits of NaN (0x7fc00000)
NaNBits == 2143289344

\* buf.readXxx(o) does not throw
InRange(buf, o, w) == o >= 0 /\ o + w <= buf.length

\* buf[o]
ByteAt(buf, o) == IF o \in DOMAIN buf.at THEN buf.at[o] ELSE 0

\* buf.readUInt8(o)
readUInt8(buf, o) == ByteAt(buf, o)

\* buf.readInt8(o)
readInt8(buf, o) ==
    IF ByteAt(buf, o) >= 128 THEN ByteAt(buf, o) - 256 ELSE ByteAt(buf, o)

\* buf.readUInt16LE(o)
readUInt16LE(buf, o) == ByteAt(buf, o) + 256 * ByteAt(buf, o + 1)

\* buf.readInt32LE(o)
readInt32LE(buf, o) ==
    ByteAt(buf, o) + 256 * ByteAt(buf, o + 1) + 65536 * ByteAt(buf, o + 2)
        + 16777216 * readInt8(buf, o + 3)

\* buf.readUInt32LE(o)
readUInt32LE(buf, o) ==
    ByteAt(buf, o) + 256 * ByteAt(buf, o + 1) + 65536 * ByteAt(buf, o + 2)
        + 16777216 * ByteAt(buf, o + 3)

\* the float of the four bytes b (least significant first): sign bit, 8
\* bits of exponent biased by 127, 23 bits of fraction
FloatOfBytes(b) ==
    LET sign == b[4] \div 128
        exp == (b[4] % 128) * 2 + b[3] \div 128
        frac == (b[3] % 128) * 65536 + b[2] * 256 + b[1]
        bits == exp * 8388608 + frac
        shift == 150 - exp
        whole == /\ exp >= 127
                 /\ shift >= 0
                 /\ (8388608 + frac) % Pow2(shift) = 0
                 /\ (8388608 + frac) \div Pow2(shift) <= Float32Bits
        size == IF bits = 0 THEN 0
                ELSE IF whole THEN (8388608 + frac) \div Pow2(shift)
                ELSE Float32Bits + bits
    IN  IF exp = 255 /\ frac # 0 THEN Float32Bits + NaNBits
        ELSE IF sign = 1 THEN -size ELSE size

\* buf.readFloatLE(o)
readFloatLE(buf, o) ==
    FloatOfBytes(<<ByteAt(buf, o), ByteAt(buf, o + 1), ByteAt(buf, o + 2),
                   ByteAt(buf, o + 3)>>)

\* buf.read<method>(o), when it does not throw
ReadAt(buf, method, o) ==
    CASE method = "Int32LE" -> readInt32LE(buf, o)
      [] method = "UInt32LE" -> readUInt32LE(buf, o)
      [] method = "FloatLE" -> readFloatLE(buf, o)
      [] method = "UInt16LE" -> readUInt16LE(buf, o)
      [] method = "UInt8" -> readUInt8(buf, o)
      [] method = "Int8" -> readInt8(buf, o)

\* the read method of a field
MethodOf(layout, name) ==
    LET i == CHOOSE k \in 1 .. Len(layout) : layout[k][1] = name
    IN  layout[i][4]

\* every read of the object literal is in range
ReadsOk(buf, layout, base) ==
    \A i \in 1 .. Len(layout) : InRange(buf, base + layout[i][2], layout[i][3])

\* the object literal: one property per read
ReadFields(buf, layout, base) ==
    [ name \in FieldNames(layout) |->
        ReadAt(buf, MethodOf(layout, name), base + OffsetOf(layout, name)) ]

\* { ...f, ...g }
Spread(f, g) ==
    [ name \in DOMAIN f \cup DOMAIN g |-> IF name \in DOMAIN g THEN g[name] ELSE f[name] ]

Threw == [threw |-> TRUE, fields |-> <<>>]
Returned(fields) == [threw |-> FALSE, fields |-> fields]

\* parseDashPacket that never takes the 12-byte padding into account
parseDashPacket_Unpadded(buf) ==
    LET dashStart == SledLength
        wearStart == dashStart + WearOffset
    IN  IF ~ReadsOk(buf, SledLayout, 0) THEN Threw
        ELSE IF buf.length < MinDashLength
        THEN Returned(ReadFields(buf, SledLayout, 0))
        ELSE IF ~ReadsOk(buf, DashLayout, dashStart) THEN Threw
        ELSE LET sled == ReadFields(buf, SledLayout, 0)
                 dash == ReadFields(buf, DashLayout, dashStart)
                 extras == IF buf.length >= wearStart + WearLength
                           THEN ReadFields(buf, ExtrasLayout, wearStart)
                           ELSE <<>>
             IN  Returned(Spread(Spread(sled, dash), extras))

\* parseDashPacket that wants one byte more than the tire wear block needs
parseDashPacket_WearOffByOne(buf) ==
    LET hasPadding == buf.length >= PaddedLength
        dashStart == IF hasPadding THEN PaddedDashStart ELSE SledLength
        wearStart == dashStart + WearOffset
    IN  IF ~ReadsOk(buf, SledLayout, 0) THEN Threw
        ELSE IF buf.length < MinDashLength
        THEN Returned(ReadFields(buf, SledLayout, 0))
        ELSE IF ~ReadsOk(buf, DashLayout, dashStart) THEN Threw
        ELSE LET sled == ReadFields(buf, SledLayout, 0)
                 dash == ReadFields(buf, DashLayout, dashStart)
                 extras == IF buf.length > wearStart + WearLength
                           THEN ReadFields(buf, ExtrasLayout, wearStart)
                           ELSE <<>>
             IN  Returned(Spread(Spread(sled, dash), extras))

\* parseDashPacket that takes the padding into account from 340 bytes on
parseDashPacket_LatePadding(buf) ==
    LET hasPadding == buf.length >= PaddedLength + 16
        dashStart == IF hasPadding THEN PaddedDashStart ELSE SledLength
        wearStart == dashStart + WearOffset
    IN  IF ~ReadsOk(buf, SledLayout, 0) THEN Threw
        ELSE IF buf.length < MinDashLength
        THEN Returned(ReadFields(buf, SledLayout, 0))
        ELSE IF ~ReadsOk(buf, DashLayout, dashStart) THEN Threw
        ELSE LET sled == ReadFields(buf, SledLayout, 0)
                 dash == ReadFields(buf, DashLayout, dashStart)
                 extras == IF buf.length >= wearStart + WearLength
                           THEN ReadFields(buf, ExtrasLayout, wearStart)
                           ELSE <<>>
             IN  Returned(Spread(Spread(sled, dash), extras))

\* parseDashPacket without the early return for a Sled-only packet
parseDashPacket_NoSledOnly(buf) ==
    LET hasPadding == buf.length >= PaddedLength
        dashStart == IF hasPadding THEN PaddedDashStart ELSE SledLength
        wearStart == dashStart + WearOffset
    IN  IF ~ReadsOk(buf, SledLayout, 0) THEN Threw
        ELSE IF ~ReadsOk(buf, DashLayout, dashStart) THEN Threw
        ELSE LET sled == ReadFields(buf, SledLayout, 0)
                 dash == ReadFields(buf, DashLayout, dashStart)
                 extras == IF buf.length >= wearStart + WearLength
                           THEN ReadFields(buf, ExtrasLayout, wearStart)
                           ELSE <<>>
             IN  Returned(Spread(Spread(sled, dash), extras))

parseDashPacket(buf) ==
    LET hasPadding == buf.length >= PaddedLength
        dashStart == IF hasPadding THEN PaddedDashStart ELSE SledLength
        wearStart == dashStart + WearOffset
    IN  IF ~ReadsOk(buf, SledLayout, 0) THEN Threw
        ELSE IF buf.length < MinDashLength
        THEN Returned(ReadFields(buf, SledLayout, 0))
        ELSE IF ~ReadsOk(buf, DashLayout, dashStart) THEN Threw
        ELSE LET sled == ReadFields(buf, SledLayout, 0)
                 dash == ReadFields(buf, DashLayout, dashStart)
                 extras == IF buf.length >= wearStart + WearLength
                           THEN ReadFields(buf, ExtrasLayout, wearStart)
                           ELSE <<>>
             IN  Returned(Spread(Spread(sled, dash), extras))

RECURSIVE Log2(_)
\* the e with 2 ** e <= n < 2 ** (e + 1), for n >= 1
Log2(n) == IF n < 2 THEN 0 ELSE 1 + Log2(n \div 2)

RECURSIVE Doublings(_, _)
\* the least k with a * 2 ** k >= per, for a >= 1
Doublings(a, per) == IF a >= per THEN 0 ELSE 1 + Doublings(2 * a, per)

\* the w bytes of the integer v, least significant first (two's complement)
BytesOfInt(v, w) == [ i \in 1 .. w |-> (v \div Pow2(8 * (i - 1))) % 256 ]

\* the four bytes writeFloatLE stores for the number v / per: those of the
\* nearest float with a 24-bit significand, ties to even
BytesOfFloat(v, per) ==
    LET a == IF v < 0 THEN -v ELSE v
        e == IF a >= per THEN Log2(a \div per) ELSE -Doublings(a, per)
        k == 23 - e
        num == IF k >= 0 THEN a * Pow2(k) ELSE a
        den == IF k >= 0 THEN per ELSE per * Pow2(-k)
        q == num \div den
        r == num % den
        m == IF 2 * r > den \/ (2 * r = den /\ q % 2 = 1) THEN q + 1 ELSE q
        exp == IF m = 16777216 THEN e + 128 ELSE e + 127
        frac == IF m = 16777216 THEN 0 ELSE m - 8388608
        sign == IF v < 0 THEN 1 ELSE 0
    IN  IF v = 0 THEN <<0, 0, 0, 0>>
        ELSE << frac % 256, (frac \div 256) % 256,
                (exp % 2) * 128 + frac \div 65536, sign * 128 + exp \div 2 >>

\* what readFloatLE returns where writeFloatLE wrote v / per
FloatLE(v, per) == FloatOfBytes(BytesOfFloat(v, per))

\* the bytes a write<method> of the integer v stores
BytesOf(method, v, w) ==
    IF method = "FloatLE" THEN BytesOfFloat(v, 1) ELSE BytesOfInt(v, w)

\* <<offset, byte>> for the bytes stored from offset o on
WriteCells(o, bytes) == { <<o + i - 1, bytes[i]>> : i \in 1 .. Len(bytes) }

\* the buffer of len bytes that holds the cells and 0 elsewhere
BufferOf(len, cells) ==
    LET kept == { c \in cells : c[1] < len /\ c[2] # 0 }
    IN  [length |-> len,
         at |-> [ o \in { c[1] : c \in kept } |->
                    (CHOOSE c \in kept : c[1] = o)[2] ]]

\* a datagram of len bytes as the game lays it out: IsRaceOn and NumCylinders
\* in the Sled section, then the Dash extras from offset base, each field
\* written in its own type and holding a value of its own (100 + its place
\* in the layout, or the one set gives it), then the tire wear block (200 +
\* place); what lies beyond len is cut off
LaidOut(len, raceOn, base, set) ==
    BufferOf(len,
        WriteCells(0, BytesOfInt(raceOn, 4))
        \cup WriteCells(228, BytesOfInt(8, 4))
        \cup UNION { WriteCells(base + DashLayout[i][2],
                                BytesOf(DashLayout[i][4],
                                        IF DashLayout[i][1] \in DOMAIN set
                                        THEN set[DashLayout[i][1]]
                                        ELSE 100 + i,
                                        DashLayout[i][3])) :
                        i \in 1 .. Len(DashLayout) }
        \cup UNION { WriteCells(base + WearOffset + ExtrasLayout[i][2],
                                BytesOf(ExtrasLayout[i][4], 200 + i,
                                        ExtrasLayout[i][3])) :
                        i \in 1 .. Len(ExtrasLayout) })

\* the datagram whose every field holds its place in the layout
Datagram(len, raceOn, base) == LaidOut(len, raceOn, base, <<>>)

-----------------------------------------------------------------------------
(* Doubles.  The sums of the mock sender (currLapTime, dist, posX, posZ)   *)
(* are JavaScript numbers: doubles with a significand of 53 binary digits, *)
(* every sum and product rounded to the nearest double, ties to even.  A   *)
(* double that is not negative is kept exactly, as the sequence of its     *)
(* binary digits, least significant first: digit i weighs                  *)
(* 2 ** (i - 1 - DoubleScale), the last digit is 1, and 0 is <<>>.  The    *)
(* sender computes no double with a digit below 2 ** -57, and none as      *)
(* large as 2 ** 53.                                                       *)

DoubleScale == 60

RECURSIVE DigitsOf(_)
\* the binary digits of the natural number n
DigitsOf(n) == IF n = 0 THEN <<>> ELSE <<n % 2>> \o DigitsOf(n \div 2)

RECURSIVE NatOf(_)
\* the natural number of the binary digits d
NatOf(d) == IF d = <<>> THEN 0 ELSE Head(d) + 2 * NatOf(Tail(d))

RECURSIVE AddDigits(_, _, _)
\* a + b + carry, exactly
AddDigits(a, b, carry) ==
    IF a = <<>> /\ b = <<>> THEN (IF carry = 1 THEN <<1>> ELSE <<>>)
    ELSE LET x == IF a = <<>> THEN 0 ELSE Head(a)
             y == IF b = <<>> THEN 0 ELSE Head(b)
         IN  <<(x + y + carry) % 2>>
                 \o AddDigits(IF a = <<>> THEN a ELSE Tail(a),
                              IF b = <<>> THEN b ELSE Tail(b),
                              (x + y + carry) \div 2)

\* a * 2 ** k, exactly
Shifted(a, k) == IF a = <<>> THEN a ELSE [i \in 1 .. k |-> 0] \o a

RECURSIVE TimesNat(_, _)
\* a * n for a natural number n, exactly
TimesNat(a, n) ==
    IF n = 0 THEN <<>>
    ELSE AddDigits(IF n % 2 = 1 THEN a ELSE <<>>, Shifted(TimesNat(a, n \div 2), 1), 0)

\* the nearest number to a with at most p significant digits, ties to even
RoundDigits(a, p) ==
    IF Len(a) <= p THEN a
    ELSE LET s == Len(a) - p
             kept == SubSeq(a, s + 1, Len(a))
             up == a[s] = 1 /\ (a[s + 1] = 1 \/ \E i \in 1 .. s - 1 : a[i] = 1)
         IN  Shifted(IF up THEN AddDigits(kept, <<1>>, 0) ELSE kept, s)

\* the significand of the double 0.1 (and of 100 / 1000): 0x1999999999999A,
\* 0.1 being this times 2 ** -56
TenthSignificand ==
    AddDigits(Shifted(DigitsOf(26843545), 28), DigitsOf(161061274), 0)

\* the double 0.1
DoubleTenth == Shifted(TenthSignificand, DoubleScale - 56)

\* a + b in doubles
DoubleAdd(a, b) == RoundDigits(AddDigits(a, b, 0), 53)

\* speed * 0.1 in doubles, for a speed of halves / 2 (a double that is not
\* negative): halves * 0.1 / 2 exactly, then rounded
DoubleTimesTenth(halves) ==
    RoundDigits(TimesNat(Shifted(TenthSignificand, DoubleScale - 57), halves), 53)

\* the four bytes writeFloatLE stores for the double a: those of the nearest
\* float (24 significant digits, ties to even)
BytesOfDouble(a) ==
    LET r == RoundDigits(a, 24)
        w == IF Len(r) < 24 THEN Shifted(r, 24 - Len(r)) ELSE r
        frac == NatOf(SubSeq(w, Len(w) - 23, Len(w))) - 8388608
        exp == Len(r) - 1 - DoubleScale + 127
    IN  IF a = <<>> THEN <<0, 0, 0, 0>>
        ELSE << frac % 256, (frac \div 256) % 256,
                (exp % 2) * 128 + frac \div 65536, exp \div 2 >>

-----------------------------------------------------------------------------
(* The mock sender: the script that sends a 324-byte packet every 100 ms.  *)
(* rpm, gear, speedDir and timestamp are whole numbers, speed is kept in   *)
(* halves (it changes by 0.5 a run), and currLapTime, dist, posX and posZ  *)
(* are doubles.                                                            *)

MockLength == 324           \* Buffer.alloc(324)
\* the let variables before the first run
MockStart ==
    [isRaceOn |-> 1, timestamp |-> 0, rpm |-> 1000, speed |-> 0, gear |-> 1,
     currLapTime |-> <<>>, dist |-> <<>>, speedDir |-> 1, posX |-> <<>>, posZ |-> <<>>]

\* rpm, gear and speedDir after the four ifs on them
MockShift(m) ==
    LET a == [m EXCEPT !.rpm = m.rpm + 50 * m.speedDir]
        b == IF a.rpm > 7500 THEN [a EXCEPT !.gear = a.gear + 1, !.rpm = 4000] ELSE a
        c == IF b.gear > 6 THEN [b EXCEPT !.gear = 6, !.speedDir = -1] ELSE b
        d == IF c.rpm < 2000 /\ c.speedDir = -1
             THEN [c EXCEPT !.gear = c.gear - 1, !.rpm = 6000] ELSE c
    IN  IF d.gear < 1 THEN [d EXCEPT !.gear = 1, !.speedDir = 1] ELSE d

\* the let variables when the packet is sent: speed, currLapTime and dist
\* advanced, posX, posZ and timestamp not yet
MockAtSend(m) ==
    LET a == MockShift(m)
        faster == a.speed + a.speedDir
        b == [a EXCEPT !.speed = IF faster < 0 THEN 0 ELSE faster]
    IN  [b EXCEPT !.currLapTime = DoubleAdd(b.currLapTime, DoubleTenth),
                  !.dist = DoubleAdd(b.dist, DoubleTimesTenth(b.speed))]

\* the let variables after a run of the callback
MockAfter(m) ==
    LET a == MockAtSend(m)
    IN  [a EXCEPT !.posX = DoubleAdd(a.posX, DoubleTimesTenth(a.speed)),
                  !.posZ = DoubleAdd(a.posZ, DoubleTimesTenth(a.speed)),
                  !.timestamp = a.timestamp + 100]

\* the packet after the writes of a run, m being the variables at the send
MockPacket(m) ==
    BufferOf(MockLength,
        WriteCells(0, BytesOfInt(m.isRaceOn, 4))
        \cup WriteCells(4, BytesOfInt(m.timestamp, 4))
        \cup WriteCells(8, BytesOfFloat(8000, 1))
        \cup WriteCells(16, BytesOfFloat(m.rpm, 1))
        \cup WriteCells(244, BytesOfDouble(m.posX))
        \cup WriteCells(248, BytesOfFloat(0, 1))
        \cup WriteCells(252, BytesOfDouble(m.posZ))
        \cup WriteCells(256, BytesOfFloat(m.speed, 2))
        \cup WriteCells(308, BytesOfInt(m.gear, 1))
        \cup WriteCells(302, BytesOfInt(0, 2))
        \cup WriteCells(292, BytesOfDouble(m.currLapTime))
        \cup WriteCells(280, BytesOfDouble(m.dist)))

-----------------------------------------------------------------------------
(* State machine *)

\* lapLog before any sample: the two arrays of the useRef initialiser are
\* arrays 0 and 1
NoLapLog ==
    [startClock |-> 0, startDistance |-> 0, lastDistance |-> 0, monotone |-> TRUE,
     startPosition |-> Pt(0, 0),
     checkpointsId |-> 0, pointsId |-> 1, nextId |-> 2]

\* checkpoints: [...current.checkpoints], points: [...current.points]: the
\* spreads allocate two arrays
FinishedLapArrays(log) ==
    [checkpointsId |-> log.nextId, pointsId |-> log.nextId + 1]

\* current.checkpoints = []; current.points = []: two more arrays; before
\* them, the two of the finished lap when there is one
ResetArrays(cur, log) ==
    LET base == IF cur.lapNumber # NoLap THEN log.nextId + 2 ELSE log.nextId
    IN  [checkpointsId |-> base, pointsId |-> base + 1, nextId |-> base + 2]

\* lapLog after a run of the effect on an accepted sample
NextLapLog(t, cur, effLap, log) ==
    IF effLap # cur.lapNumber
    THEN [startClock |-> t.CurrentRaceTime,
          startDistance |-> t.DistanceTraveled,
          lastDistance |-> t.DistanceTraveled,
          monotone |-> TRUE,
          startPosition |-> Pt(t.PositionX, t.PositionZ),
          checkpointsId |-> ResetArrays(cur, log).checkpointsId,
          pointsId |-> ResetArrays(cur, log).pointsId,
          nextId |-> ResetArrays(cur, log).nextId]
    ELSE [log EXCEPT !.lastDistance = t.DistanceTraveled,
                     !.monotone = log.monotone
                                    /\ t.DistanceTraveled >= log.lastDistance]

\* input before any sample, and after a step that is not a run of the effect
NoInput == [seen |-> FALSE, IsRaceOn |-> 1, atOrigin |-> FALSE]

LapManagerInit ==
    /\ current = [lapNumber |-> NoLap, startTime |-> 0, startDistance |-> 0,
                  checkpoints |-> <<>>, points |-> <<>>, invalid |-> FALSE,
                  lastCheckpointDistance |-> -1, gatesCrossed |-> 0,
                  nextGateIdx |-> 0]
    /\ lapTracker = [highestRawLap |-> NoLap, offset |-> 0]
    /\ laps = <<>>
    /\ effectiveLap = NoLap
    /\ effSeen = {}
    /\ emitted = <<>>
    /\ discarded = {}
    /\ pausedSeen = FALSE
    /\ input = NoInput
    /\ lapLog = NoLapLog

\* the WebSockets that may connect
Sockets == {1, 2}

\* Date.now() when the server starts: any value more than 1000 / 30 ms after
\* lastBroadcastTime = 0
StartTime == 1000

\* handled before any datagram
NoDatagram ==
    [count |-> 0, length |-> 0, outcome |-> "none", sentTo |-> {}, before |-> "none",
     sentTimes |-> <<>>]

ServerInit ==
    /\ lastBroadcastTime = 0
    /\ isReceiving = FALSE
    /\ clients = <<>>
    /\ readyState = [ws \in Sockets |-> 0]
    /\ wall = StartTime
    /\ delivered = [ws \in Sockets |-> <<>>]
    /\ handled = NoDatagram

MockInit ==
    /\ mock = MockStart
    /\ packet = [length |-> MockLength, at |-> <<>>]

\* telemetryData before the first message: the effect returns on
\* !telemetryData, as it does on a sample with IsRaceOn = 0
NoTelemetry ==
    [sample |-> [IsRaceOn |-> 0, PositionX |-> 0, PositionZ |-> 0,
                 LapNumber |-> 0, LastLap |-> 0, CurrentRaceTime |-> 0,
                 DistanceTraveled |-> 0, gamePaused |-> FALSE,
                 CurrentLap |-> 0, Speed |-> 0, Brake |-> 0, Steer |-> 0],
     runs |-> 0]

\* setTimeout(..., 3000), in seconds
StaleDelay == 3
ReconnectDelay == 3

\* a timeout handle that is undefined
NoTimer == 0

\* useTelemetry after its effect has run connect(): the WebSocket is being
\* opened, nothing was received (lastDataTime is 0, long ago)
TelemetryInit ==
    /\ connectionState = "disconnected"
    /\ sinceData = StaleDelay
    /\ staleTimer = NoTimer
    /\ reconnectTimer = NoTimer
    /\ wsState = "connecting"
    /\ timers = <<>>
    /\ mounted = TRUE

\* historyLog before any event
NoHistoryEvent ==
    [event |-> "none", lapId |-> 0, before |-> <<>>, called |-> FALSE, args |-> <<>>]

\* LapHistory when first rendered: useState([]), no laps yet
LapHistoryInit ==
    /\ selectedLaps = <<>>
    /\ lapIds = {}
    /\ historyLog = NoHistoryEvent

UiInit ==
    /\ telemetryData = NoTelemetry
    /\ received = 0
    /\ TelemetryInit
    /\ LapHistoryInit
    /\ lapsFetch = "pending"

\* probe when no function is being applied
NoProbe == [fn |-> "none"]

Init == LapManagerInit /\ ServerInit /\ MockInit /\ UiInit /\ probe = NoProbe

\* what the history variable input keeps of a sample: the two fields the
\* early returns read
InputOf(t) ==
    [seen |-> TRUE, IsRaceOn |-> t.IsRaceOn,
     atOrigin |-> (t.PositionX = 0 /\ t.PositionZ = 0)]

\* One run of the effect on telemetryData = t: the hook's variables
LapManagerStep(t) ==
    /\ input' = InputOf(t)
    /\ IF ~Accepted(t)
       THEN UNCHANGED <<current, lapTracker, laps, effectiveLap, effSeen,
                        emitted, discarded, pausedSeen, lapLog>>
       ELSE LET effLap == EffectiveLapOf(t.LapNumber, lapTracker)
                saved == SavedLaps(t, current, effLap)
            IN  /\ lapTracker' = ResolveRollover(t.LapNumber, lapTracker)
                /\ laps' = AppendLaps(laps, saved)
                /\ current' = NextCurrent(t, current, effLap)
                /\ effectiveLap' = effLap
                /\ effSeen' = effSeen \cup {effLap}
                /\ emitted' = emitted \o
                       [i \in 1 .. Len(saved) |->
                           [lap |-> saved[i],
                            gatesCrossed |-> current.gatesCrossed,
                            pausedSeen |-> pausedSeen,
                            trigger |-> [LastLap |-> t.LastLap,
                                         CurrentRaceTime |-> t.CurrentRaceTime],
                            startClock |-> lapLog.startClock,
                            length |-> lapLog.lastDistance - lapLog.startDistance,
                            monotone |-> lapLog.monotone,
                            pointsId |-> FinishedLapArrays(lapLog).pointsId,
                            checkpointsId |-> FinishedLapArrays(lapLog).checkpointsId]]
                /\ discarded' = IF Finalizes(current, effLap) /\ saved = <<>>
                                THEN discarded \cup {current.lapNumber}
                                ELSE discarded
                /\ pausedSeen' = IF effLap # current.lapNumber
                                 THEN t.gamePaused
                                 ELSE (pausedSeen \/ t.gamePaused)
                /\ lapLog' = NextLapLog(t, current, effLap, lapLog)

\* One run of the effect on telemetryData = t.
useLapManagerEffect(t) == LapManagerStep(t) /\ UNCHANGED <<srvVars, probe, mockVars, uiVars>>

\* clearLaps = () => setLaps([])
clearLaps ==
    /\ laps' = <<>>
    /\ input' = NoInput
    /\ UNCHANGED <<current, lapTracker, effectiveLap, effSeen, emitted,
                   discarded, pausedSeen, lapLog>>
    /\ UNCHANGED <<srvVars, probe, mockVars, uiVars>>

\* new Set(prev.map(l => l.id))
ExistingIds(prev) == { prev[i].id : i \in 1 .. Len(prev) }

\* prev => { ...; return newLaps.length > 0 ? [...prev, ...newLaps] : prev }
MergeSavedLaps(prev, savedLaps) ==
    prev \o SelectSeq(savedLaps, LAMBDA l : l.id \notin ExistingIds(prev))

\* the page's mount effect, when its fetch('/api/laps') has answered with
\* savedLaps: setLaps with the updater above if there are any
setLaps(savedLaps) ==
    /\ lapsFetch = "pending"
    /\ lapsFetch' = "done"
    /\ laps' = IF Len(savedLaps) > 0 THEN MergeSavedLaps(laps, savedLaps) ELSE laps
    /\ input' = NoInput
    /\ UNCHANGED <<current, lapTracker, effectiveLap, effSeen, emitted,
                   discarded, pausedSeen, lapLog>>
    /\ UNCHANGED <<srvVars, probe, mockVars, telemetryData, received, connVars, selVars>>

-----------------------------------------------------------------------------
(* Specification Spec: lap numbering, lap times and the two early returns. *)
(* Samples vary in every field the boundary logic reads.  The saved laps   *)
(* are asked for at mount, and the answer, the laps of the files of        *)
(* saved_laps in the order of their names, comes at any time, once.        *)

MaxLaps == 2

\* laps finalized so far (saved or not)
NumFinalized == Len(emitted) + Cardinality(discarded)

\* the sample closes the in-progress lap
ClosesLap(t) ==
    /\ Accepted(t)
    /\ Finalizes(current, EffectiveLapOf(t.LapNumber, lapTracker))

\* a telemetry sample, with the fields the effect reads
Sample(raceOn, pos, lap, lastLap, raceTime, dist, paused) ==
    [IsRaceOn |-> raceOn, PositionX |-> pos.x, PositionZ |-> pos.z,
     LapNumber |-> lap, LastLap |-> lastLap, CurrentRaceTime |-> raceTime,
     DistanceTraveled |-> dist, gamePaused |-> paused,
     CurrentLap |-> raceTime, Speed |-> 1, Brake |-> 0, Steer |-> 0]

\* <<LastLap, CurrentRaceTime>>: game-reported 0.9 s and 0.5 s, and the
\* fallback (LastLap = 0) at race times 0 and 1.1 s
LapClocks == { <<9, 0>>, <<5, 0>>, <<0, 0>>, <<0, 11>> }

\* raw lap numbers the game reports
RawLaps == {0, 1, 2}

AllSamples ==
    { Sample(on, pos, lap, clk[1], clk[2], 0, paused) :
        on \in {0, 1}, pos \in {Pt(0, 0), Pt(3, 2)},
        lap \in RawLaps, clk \in LapClocks, paused \in BOOLEAN }

\* Spec's samples: the server sets _gamePaused only on samples with
\* IsRaceOn = 0; a sample with the race off or at the origin reports a last
\* lap of 0.9 s
Samples ==
    { t \in AllSamples :
        /\ t.gamePaused => t.IsRaceOn = 0
        /\ (t.IsRaceOn = 0 \/ (t.PositionX = 0 /\ t.PositionZ = 0)) => t.LastLap = 9 }

Ingest ==
    \E t \in Samples :
        /\ ClosesLap(t) => NumFinalized < MaxLaps
        /\ useLapManagerEffect(t)

\* a lap saved in an earlier session, as /api/laps returns it
StoredLap(id, lapNumber, finalTime) ==
    [id |-> id, lapNumber |-> lapNumber, finalTime |-> finalTime,
     checkpoints |-> <<>>, invalid |-> FALSE, points |-> <<>>,
     corners |-> <<>>]

\* what an earlier session left in saved_laps: nothing, or its laps 0 and
\* 1, of 0.9 s and 0.6 s, in the files 0-1.json and 1-2.json
StoredFiles ==
    { {}, { StoredLap(LapId(0, 1), 0, 9), StoredLap(LapId(1, 2), 1, 6) } }

\* what handleSave has stored of this session when GET reads saved_laps:
\* nothing, or one of the laps the effect has appended
SessionFiles == { {} } \cup { { emitted[i].lap } : i \in 1 .. Len(emitted) }

RECURSIVE Decimal(_)
\* the characters of the number n in a template string ('0' is 48)
Decimal(n) == IF n < 10 THEN <<48 + n>> ELSE Decimal(n \div 10) \o <<48 + (n % 10)>>

\* `${lap.id.replace(/[^a-zA-Z0-9_-]/g, '_')}.json`, the id being
\* `${lapNumber}-${Date.now()}`: digits, '-', digits, ".json"
FileName(id) ==
    Decimal(id[1]) \o <<45>> \o Decimal(id[2]) \o <<46, 106, 115, 111, 110>>

RECURSIVE NameBefore(_, _)
\* the order of the names fs.readdirSync returns: character by character
NameBefore(a, b) ==
    IF a = <<>> \/ b = <<>> THEN a = <<>> /\ b # <<>>
    ELSE IF Head(a) # Head(b) THEN Head(a) < Head(b)
    ELSE NameBefore(Tail(a), Tail(b))

RECURSIVE GET(_)
\* GET /api/laps: the laps of the files of saved_laps, one file for an id,
\* in the order of the file names
GET(files) ==
    IF files = {} THEN <<>>
    ELSE LET first == CHOOSE f \in files : \A g \in files \ {f} :
                            NameBefore(FileName(f.id), FileName(g.id))
         IN  <<first>> \o GET(files \ {first})

\* the answer of /api/laps comes
LoadSaved ==
    \E stored \in StoredFiles, session \in SessionFiles :
        setLaps(GET(stored \cup session))

Next == Ingest \/ clearLaps \/ LoadSaved

Spec == Init /\ [][Next]_vars

-----------------------------------------------------------------------------
(* Properties of Spec *)

\* lap numbers of the laps handed to setLaps so far, in order
EmittedNumbers == [i \in 1 .. Len(emitted) |-> emitted[i].lap.lapNumber]

EmittedNumberSet == { emitted[i].lap.lapNumber : i \in 1 .. Len(emitted) }

\* C1: the effective lap number rawLap + offset computed for an accepted
\* sample is never below the one computed for the previous accepted sample,
\* whatever the raw lap numbers and however many times they decrease.
C1_EffectiveLapMonotone ==
    [][effectiveLap # NoLap => effectiveLap' >= effectiveLap]_vars

\* two game-side resets have happened (one reset adds at most 3 to offset)
C1_Witness ==
    /\ lapTracker.offset > 3
    /\ effectiveLap = lapTracker.offset + lapTracker.highestRawLap

\* C2: every lap the effect appends to the laps list has a lap number
\* strictly greater than every lap it appended before, also across raw
\* lap-counter resets; it is appended at the end of the list.
C2_StrictlyIncreasingLaps ==
    /\ [](\A i, j \in 1 .. Len(emitted) :
            i < j => emitted[i].lap.lapNumber < emitted[j].lap.lapNumber)
    /\ [][(input'.seen /\ laps' # laps) =>
            /\ Len(emitted') = Len(emitted) + 1
            /\ laps' = Append(laps, emitted'[Len(emitted')].lap)
            /\ \A i \in 1 .. Len(emitted) :
                  emitted[i].lap.lapNumber < emitted'[Len(emitted')].lap.lapNumber]_vars

\* two laps appended with a reset of the raw counter behind them, both in
\* the list
C2_Witness ==
    /\ Len(emitted) >= 2
    /\ lapTracker.offset > 0
    /\ emitted[Len(emitted)].lap.lapNumber >= lapTracker.offset
    /\ Len(laps) >= 2
    /\ laps[Len(laps)] = emitted[Len(emitted)].lap
    /\ laps[Len(laps) - 1] = emitted[Len(emitted) - 1].lap

\* C3: a lap is emitted only while an accepted sample whose effective lap
\* number differs from the in-progress lap number is processed; the lap in
\* progress is never among the emitted ones; every other lap seen was
\* finalized exactly once; and after samples of laps 0, 1 and 2 with final
\* times above 0.5 s exactly laps 0 and 1 have been emitted.
C3_EmittedOnlyAtBoundary ==
    /\ [][emitted' # emitted =>
            /\ effectiveLap' # current.lapNumber
            /\ current'.lapNumber = effectiveLap'
            /\ Len(emitted') = Len(emitted) + 1
            /\ emitted'[Len(emitted')].lap.lapNumber = current.lapNumber]_vars
    /\ [](/\ current.lapNumber \notin EmittedNumberSet
          /\ EmittedNumberSet \cap discarded = {}
          /\ EmittedNumberSet \cup discarded = effSeen \ {current.lapNumber}
          /\ (effSeen = {0, 1, 2} /\ lapTracker.offset = 0 /\ discarded = {}
                => EmittedNumbers = <<0, 1>>))

\* laps 0, 1, 2 were fed, none was discarded, lap 2 is still in progress
C3_Witness ==
    /\ effSeen = {0, 1, 2}
    /\ lapTracker.offset = 0
    /\ discarded = {}
    /\ current.lapNumber = 2
    /\ EmittedNumbers = <<0, 1>>

\* C4: processing one sample emits at most one lap and appends at most one
\* to the laps list, and a lap number jumped over between two accepted
\* samples is never emitted.
C4_AtMostOneLapPerSample ==
    /\ [][/\ Len(emitted') <= Len(emitted) + 1
          /\ input'.seen => Len(laps') <= Len(laps) + 1]_vars
    /\ [](EmittedNumberSet \subseteq effSeen)

\* the lap number jumped from 0 to 2 and lap 0 was emitted at the jump
C4_Witness ==
    /\ effSeen = {0, 2}
    /\ EmittedNumbers = <<0>>
    /\ current.lapNumber = 2

\* C5: every lap in the laps list has finalTime > 0.5 s; a finished lap whose
\* final time is 0.5 s or less (zero and negative fallback times included)
\* is not appended.
C5_FinalTimeAboveHalfSecond ==
    /\ \A i \in 1 .. Len(laps) : laps[i].finalTime > 5
    /\ \A i \in 1 .. Len(emitted) : emitted[i].lap.finalTime > 5

\* a lap was discarded and a later one saved
C5_Witness ==
    /\ discarded # {}
    /\ laps # <<>>
    /\ laps[Len(laps)].id = LapId(laps[Len(laps)].lapNumber, SessionNow)
    /\ \E n \in discarded : n < laps[Len(laps)].lapNumber

\* C8: processing a sample with IsRaceOn = 0 leaves the in-progress lap, the
\* rollover bookkeeping and the laps list as they were, whatever its other
\* fields are.
C8_InactiveSampleIgnored ==
    [][(input'.seen /\ input'.IsRaceOn = 0) => UNCHANGED lmVars]_vars

\* an inactive sample was processed in the middle of a lap
C8_Witness ==
    /\ input.seen
    /\ input.IsRaceOn = 0
    /\ ~input.atOrigin
    /\ current.lapNumber # NoLap
    /\ Len(current.points) > 0
    /\ laps # <<>>

\* C9: a sample at PositionX = 0 and PositionZ = 0 is skipped completely:
\* nothing of the in-progress lap, the rollover bookkeeping or the laps list
\* changes.
C9_OriginSampleSkipped ==
    [][(input'.seen /\ input'.atOrigin) => UNCHANGED lmVars]_vars

\* a race-active sample at the origin was processed in the middle of a lap
C9_Witness ==
    /\ input.seen
    /\ input.atOrigin
    /\ input.IsRaceOn = 1
    /\ current.lapNumber # NoLap
    /\ Len(current.points) > 0

-----------------------------------------------------------------------------
(* Specification SpecTrace: the trace and the gate cursor.  Samples vary in *)
(* position and lap number, and the odometer stands still or advances by   *)
(* 11 m a sample; every finished lap is saved (LastLap = 0.9 s).           *)

MaxTraceLaps == 1
MaxOdo == 3

TracePositions == { Pt(1, 2), Pt(3, 2), Pt(7, 2) }

\* DistanceTraveled of the last accepted sample (every accepted sample of
\* SpecTrace and SpecPit is on the odometer's 11 m grid, so it is recorded)
Odometer ==
    IF Len(current.points) = 0 THEN 0
    ELSE current.startDistance + current.points[Len(current.points)].d

OdoStep == PointSpacing + 1

TraceSamples ==
    { Sample(1, pos, lap, 9, 0, dist, paused) :
        pos \in TracePositions, lap \in {0, 1},
        dist \in { OdoStep * i : i \in 0 .. MaxOdo }, paused \in {FALSE} }

IngestTrace ==
    \E t \in TraceSamples :
        /\ t.DistanceTraveled \in { Odometer, Odometer + OdoStep }
        /\ ClosesLap(t) => NumFinalized < MaxTraceLaps
        /\ useLapManagerEffect(t)

NextTrace == IngestTrace

SpecTrace == Init /\ [][NextTrace]_vars

-----------------------------------------------------------------------------
(* Properties of SpecTrace *)

StrictlyIncreasingGates(crossings) ==
    \A i, j \in 1 .. Len(crossings) :
        i < j => crossings[i].gateIndex < crossings[j].gateIndex

\* C10: between two lap boundaries the live gate cursor never moves back and
\* gatesCrossed counts each cursor step once; the crossing list that
\* getLapGateTimes computes for a lap's trace has strictly increasing gate
\* indices, so no gate appears twice.
C10_GatesInOrder ==
    /\ [][current'.lapNumber = current.lapNumber =>
            /\ current'.nextGateIdx >= current.nextGateIdx
            /\ current'.gatesCrossed - current.gatesCrossed
                   = current'.nextGateIdx - current.nextGateIdx]_vars
    /\ [](/\ current.nextGateIdx <= GateCount
          /\ current.gatesCrossed <= GateCount
          /\ StrictlyIncreasingGates(getLapGateTimes(current.points))
          /\ \A i \in 1 .. Len(laps) :
                StrictlyIncreasingGates(getLapGateTimes(laps[i].points)))

\* the car crossed gate 0, drove back over it, and then forward over all
\* three gate lines: gate 0 is not counted a second time
C10_Witness ==
    /\ Len(current.points) = 4
    /\ current.points[1].x = 1 /\ current.points[2].x = 3
    /\ current.points[3].x = 1 /\ current.points[4].x = 7
    /\ current.gatesCrossed = 3
    /\ Len(getLapGateTimes(current.points)) = 3

\* the gates the start-gate scan skips for a lap begun at p: the gates from
\* gate 0 on that are behind p, up to the first gate that is not
SkippedGates(p) ==
    { g \in 0 .. GateCount - 1 :
        \A h \in 0 .. g : GateDot(h, p.x, p.z) > 0 }

\* the gates counted as crossed in the in-progress lap: the cursor moved
\* over them, one gatesCrossed each
CountedGates ==
    (current.nextGateIdx - current.gatesCrossed) .. (current.nextGateIdx - 1)

\* C27 as stated: no gate the scan skipped at the start of a lap is counted
\* as crossed during that lap, also when the scan skipped every gate.
C27_SkippedGatesNeverCounted ==
    current.points # <<>> =>
        CountedGates \cap SkippedGates(lapLog.startPosition) = {}

\* C27 (amended): when the scan leaves a gate unskipped, no gate it skipped
\* is counted as crossed during that lap, whatever path the trace takes;
\* when the scan skips every gate the cursor starts again at gate 0, and the
\* gates counted during that lap are gate 0 and the gates after it.
C27_SkippedGatesNotCountedUnlessAll ==
    current.points # <<>> =>
        LET skipped == SkippedGates(lapLog.startPosition)
        IN  IF skipped # 0 .. GateCount - 1
            THEN CountedGates \cap skipped = {}
            ELSE CountedGates = 0 .. current.gatesCrossed - 1

\* a lap that began past gate 0 drove back over its line and then forward
\* over all three lines: gates 1 and 2 are counted, gate 0 is not
C27_Witness ==
    /\ SkippedGates(lapLog.startPosition) = {0}
    /\ Len(current.points) = 3
    /\ current.points[2].x = 1
    /\ current.points[3].x = 7
    /\ CountedGates = {1, 2}

\* C31: the live gate tracker agrees with the post-hoc analysis of the trace:
\* the gate a lap expects first, set at its boundary, is
\* findStartGateIdx(points[0]), also when every gate is behind the car; and
\* gatesCrossed, for the in-progress lap and for every emitted lap at its
\* boundary, is the number of crossings getLapGateTimes computes from the
\* lap's points.
C31_LiveMatchesPostHoc ==
    /\ [][current'.lapNumber # current.lapNumber =>
            current'.nextGateIdx = findStartGateIdx(current'.points[1])]_vars
    /\ [](/\ current.points # <<>> =>
                /\ current.nextGateIdx - current.gatesCrossed
                       = findStartGateIdx(current.points[1])
                /\ current.gatesCrossed = Len(getLapGateTimes(current.points))
          /\ \A i \in 1 .. Len(emitted) :
                emitted[i].gatesCrossed
                    = Len(getLapGateTimes(emitted[i].lap.points)))

\* an emitted lap that began past all three gates, drove back before gate 0
\* and forward over the three lines again: three gates counted live, three
\* crossings computed from its points
C31_Witness ==
    \E i \in 1 .. Len(emitted) :
        LET points == emitted[i].lap.points
        IN  /\ Len(points) = 3
            /\ points[1].x = 7 /\ points[2].x = 1 /\ points[3].x = 7
            /\ findStartGateIdx(points[1]) = 0
            /\ emitted[i].gatesCrossed = 3
            /\ Len(getLapGateTimes(points)) = 3

-----------------------------------------------------------------------------
(* Specification SpecPit: laps long enough for the pit invalidation        *)
(* (more than 10 trace points), with and without pauses.  The car drives   *)
(* forward along the track from x = 1, before gate 0, to x = 3, past it.   *)

MaxPitOdo == 11

PitSamples ==
    { Sample(1, pos, lap, 9, 0, dist, paused) :
        pos \in { Pt(1, 2), Pt(3, 2) }, lap \in {0, 1},
        dist \in { OdoStep * i : i \in 0 .. MaxPitOdo }, paused \in BOOLEAN }

\* the car does not drive backwards within a lap
DrivesForward(t) ==
    IF Len(current.points) = 0 \/ t.LapNumber # lapTracker.highestRawLap
    THEN TRUE
    ELSE t.PositionX >= current.points[Len(current.points)].x

\* no game-side reset of the lap counter in SpecPit
NoLapReset(t) == t.LapNumber >= lapTracker.highestRawLap

IngestPit ==
    \E t \in PitSamples :
        /\ t.DistanceTraveled \in { Odometer, Odometer + OdoStep }
        /\ DrivesForward(t)
        /\ NoLapReset(t)
        /\ useLapManagerEffect(t)

NextPit == IngestPit

SpecPit == Init /\ [][NextPit]_vars

-----------------------------------------------------------------------------
(* Properties of SpecPit *)

\* C6: every emitted lap with fewer than floor(gateCount * 0.5) gates crossed
\* and more than 10 trace points is marked invalid, pause or no pause.
C6_PitLapInvalid ==
    \A i \in 1 .. Len(emitted) :
        (/\ emitted[i].gatesCrossed < GateCount \div 2
         /\ Len(emitted[i].lap.points) > 10)
            => (emitted[i].lap.invalid /\ laps[i].invalid)

\* an unpaused lap of 11 points that crossed no gate was emitted invalid
C6_Witness ==
    \E i \in 1 .. Len(emitted) :
        /\ emitted[i].gatesCrossed = 0
        /\ Len(emitted[i].lap.points) = 11
        /\ ~emitted[i].pausedSeen
        /\ emitted[i].lap.invalid

\* C7: once an accepted sample of a lap (the one that started it included)
\* carried the paused indicator, the in-progress invalid flag stays true for
\* the rest of the lap and the lap, if emitted, is invalid; the flag is
\* cleared only at a lap boundary.
C7_PauseSticky ==
    /\ [](/\ pausedSeen => current.invalid
          /\ \A i \in 1 .. Len(emitted) :
                emitted[i].pausedSeen => emitted[i].lap.invalid)
    /\ [][(current.invalid /\ ~current'.invalid)
            => current'.lapNumber # current.lapNumber]_vars

\* a lap that was paused at some sample, crossed its gate and went on for
\* further unpaused trace points was emitted invalid
C7_Witness ==
    \E i \in 1 .. Len(emitted) :
        /\ emitted[i].pausedSeen
        /\ emitted[i].gatesCrossed >= GateCount \div 2
        /\ Len(emitted[i].lap.points) >= 3
        /\ emitted[i].lap.invalid
        /\ ~pausedSeen
        /\ ~current.invalid

\* C30: a lap is emitted invalid only if an accepted sample of that lap
\* carried the paused indicator, or it crossed fewer than
\* floor(gateCount * 0.5) gates with more than 10 trace points; so an
\* unpaused lap of 10 trace points or fewer is emitted valid, whatever
\* number of gates it crossed.
C30_InvalidOnlyByPauseOrPit ==
    \A i \in 1 .. Len(emitted) :
        /\ emitted[i].lap.invalid =>
              \/ emitted[i].pausedSeen
              \/ /\ emitted[i].gatesCrossed < GateCount \div 2
                 /\ Len(emitted[i].lap.points) > 10
        /\ (Len(emitted[i].lap.points) <= 10 /\ ~emitted[i].pausedSeen) =>
              (~emitted[i].lap.invalid /\ ~laps[i].invalid)

\* an unpaused lap of exactly 10 trace points that crossed no gate was
\* emitted valid
C30_Witness ==
    \E i \in 1 .. Len(emitted) :
        /\ emitted[i].gatesCrossed = 0
        /\ Len(emitted[i].lap.points) = 10
        /\ ~emitted[i].pausedSeen
        /\ ~emitted[i].lap.invalid

-----------------------------------------------------------------------------
(* Specification SpecDist: the odometer.  DistanceTraveled of a sample is  *)
(* any of Distances, so it stalls, decreases, and advances by exactly 10 m *)
(* and 500 m as well as by 11 m and 501 m.  Laps 0 and 1, no counter       *)
(* reset; every finished lap is saved (LastLap = 0.9 s).                   *)

Distances == { 0, 10, 11, 500, 501, 1002 }

DistSamples ==
    { Sample(1, Pt(3, 2), lap, 9, 0, dist, FALSE) :
        lap \in {0, 1}, dist \in Distances }

IngestDist ==
    \E t \in DistSamples :
        /\ NoLapReset(t)
        /\ useLapManagerEffect(t)

NextDist == IngestDist

SpecDist == Init /\ [][NextDist]_vars

-----------------------------------------------------------------------------
(* Properties of SpecDist *)

\* consecutive entries of a trace are more than 10 m apart
SpacedPoints(points) ==
    \A i \in 1 .. Len(points) - 1 : points[i + 1].d > points[i].d + 10

\* C11: in every emitted lap and in the in-progress trace, consecutive trace
\* points are more than 10 m apart by relative distance, also when
\* DistanceTraveled stalls or decreases between samples.
C11_TracePointsSpaced ==
    /\ SpacedPoints(current.points)
    /\ \A i \in 1 .. Len(laps) : SpacedPoints(laps[i].points)
    /\ \A i \in 1 .. Len(emitted) : SpacedPoints(emitted[i].lap.points)

\* a lap whose odometer went back or stalled below the last point was
\* emitted with three trace points
C11_Witness ==
    \E i \in 1 .. Len(emitted) :
        /\ ~emitted[i].monotone
        /\ Len(emitted[i].lap.points) >= 3

\* first checkpoint more than 500 m after the lap start, the following ones
\* more than 500 m after the one before
SpacedCheckpoints(checkpoints) ==
    /\ checkpoints # <<>> => checkpoints[1].distance > 500
    /\ \A i \in 1 .. Len(checkpoints) - 1 :
          checkpoints[i + 1].distance - checkpoints[i].distance > 500

\* C12: in every emitted lap consecutive checkpoints are more than 500 m
\* apart and the first one lies more than 500 m after the lap start, whatever
\* the previous lap's last checkpoint was.
C12_CheckpointsSpaced ==
    /\ \A i \in 1 .. Len(laps) : SpacedCheckpoints(laps[i].checkpoints)
    /\ \A i \in 1 .. Len(emitted) : SpacedCheckpoints(emitted[i].lap.checkpoints)
    /\ SpacedCheckpoints(current.checkpoints)

\* lap 0 began at odometer 0 and recorded its only checkpoint at 501 m; the
\* first sample of lap 1 came at 1002 m, more than 500 m after that
\* checkpoint, and recorded no checkpoint
C12_Witness ==
    /\ Len(emitted) = 1
    /\ emitted[1].length = 501
    /\ Len(emitted[1].lap.checkpoints) = 1
    /\ emitted[1].lap.checkpoints[1].distance = 501
    /\ lapLog.startDistance = 1002
    /\ lapLog.lastDistance = 1002
    /\ current.checkpoints = <<>>

\* distance of the last checkpoint of a lap (0: the lap start)
LastCheckpointAt(checkpoints) ==
    IF checkpoints = <<>> THEN 0 ELSE checkpoints[Len(checkpoints)].distance

\* C13 as stated: a lap fed with monotonically increasing DistanceTraveled is
\* emitted with exactly floor(lapLength / 500) checkpoints.
C13_CheckpointCountIsFloor ==
    \A i \in 1 .. Len(emitted) :
        emitted[i].monotone =>
            Len(emitted[i].lap.checkpoints) = emitted[i].length \div 500

\* C13 (amended): a lap fed with monotonically increasing DistanceTraveled is
\* emitted with at most floor(lapLength / 500) checkpoints, and its last
\* sample lies at most 500 m beyond its last checkpoint (beyond the lap
\* start when it has none).
C13_CheckpointCountAtMostFloor ==
    \A i \in 1 .. Len(emitted) :
        emitted[i].monotone =>
            /\ Len(emitted[i].lap.checkpoints) <= emitted[i].length \div 500
            /\ 500 * Len(emitted[i].lap.checkpoints) < emitted[i].length
                    \/ emitted[i].lap.checkpoints = <<>>
            /\ emitted[i].length - LastCheckpointAt(emitted[i].lap.checkpoints)
                    <= 500

\* a lap driven 0, 501, 1002 m was emitted with two checkpoints
C13_Witness ==
    \E i \in 1 .. Len(emitted) :
        /\ emitted[i].monotone
        /\ emitted[i].length = 1002
        /\ Len(emitted[i].lap.checkpoints) = 2

-----------------------------------------------------------------------------
(* Specification SpecCorner: brake and steering along one lap.  Every      *)
(* sample advances the odometer by 20 m or by 21 m, so every sample is a   *)
(* trace point, and carries one of three control settings; lap 0 is closed *)
(* by a sample of lap 1 and saved (LastLap = 0.9 s).                       *)

MaxCornerPoints == 5

\* <<Brake, Steer, Speed>>: neither over its threshold (steer exactly 20),
\* braking (brake 16), turning only (brake exactly 15, steer -21, slowest)
Controls == { <<0, 20, 3>>, <<16, 0, 2>>, <<15, -21, 1>> }

CornerSteps == { MinCornerLength, MinCornerLength + 1 }

WithControls(t, ctl) ==
    [t EXCEPT !.Brake = ctl[1], !.Steer = ctl[2], !.Speed = ctl[3]]

CornerSamples ==
    { WithControls(Sample(1, Pt(3, 2), lap, 9, 0, dist, FALSE), ctl) :
        lap \in {0, 1},
        dist \in { a * MinCornerLength + b :
                      a \in 0 .. MaxCornerPoints, b \in 0 .. MaxCornerPoints },
        ctl \in Controls }

IngestCorner ==
    \E t \in CornerSamples :
        /\ emitted = <<>>
        /\ NoLapReset(t)
        /\ IF current.lapNumber = NoLap
           THEN t.LapNumber = 0 /\ t.DistanceTraveled = 0
           ELSE \E step \in CornerSteps : t.DistanceTraveled = Odometer + step
        /\ t.LapNumber = 0 => Len(current.points) < MaxCornerPoints
        /\ t.LapNumber = 1 => (t.Brake = 0 /\ t.DistanceTraveled = Odometer + MinCornerLength)
        /\ useLapManagerEffect(t)

NextCorner == IngestCorner

SpecCorner == Init /\ [][NextCorner]_vars

-----------------------------------------------------------------------------
(* Properties of SpecCorner *)

\* the trace points from index i to index j - 1 are a corner-active region
\* that the point at index j closes
ClosedRegion(points, i, j) ==
    /\ i < j
    /\ i = 1 \/ ~IsCornerActive(points[i - 1])
    /\ \A k \in i .. j - 1 : IsCornerActive(points[k])
    /\ ~IsCornerActive(points[j])

\* C14: every corner of an emitted lap is longer than 20 m and is a region
\* closed by a trace point that is neither braking nor turning; a region
\* still open at the last trace point of the lap is not among the corners.
C14_CornersLongAndClosed ==
    \A n \in 1 .. Len(emitted) :
        LET points == emitted[n].lap.points
            corners == emitted[n].lap.corners
        IN  /\ laps[n].corners = corners
            /\ \A c \in 1 .. Len(corners) :
                  /\ corners[c].endDist - corners[c].startDist > 20
                  /\ \E i, j \in 1 .. Len(points) :
                        /\ ClosedRegion(points, i, j)
                        /\ points[i].d = corners[c].startDist
                        /\ points[j].d = corners[c].endDist
            /\ (points # <<>> /\ IsCornerActive(points[Len(points)])) =>
                  \A c \in 1 .. Len(corners) :
                      corners[c].endDist < points[Len(points)].d

\* an emitted lap with one corner in its list, a closed region of 20 m or
\* less that is not in the list, and a region still open at its last point
C14_Witness ==
    \E n \in 1 .. Len(emitted) :
        LET points == emitted[n].lap.points
        IN  /\ Len(emitted[n].lap.corners) = 1
            /\ IsCornerActive(points[Len(points)])
            /\ \E i, j \in 1 .. Len(points) :
                  /\ ClosedRegion(points, i, j)
                  /\ points[j].d - points[i].d <= 20

\* the sum of steer over the trace points from index i to index j - 1
RECURSIVE SteerSum(_, _, _)
SteerSum(points, i, j) ==
    IF i >= j THEN 0 ELSE points[i].steer + SteerSum(points, i + 1, j)

\* C28: every corner of an emitted lap is a maximal run of consecutive
\* corner-active trace points: startDist is the relative distance of the
\* run's first point, endDist that of the first inactive point after it,
\* maxBrake the greatest brake of the run, minSpeed its least speed, and
\* avgSteer the sum of its steer over the number of its points, which is at
\* least 1.
C28_CornerSummarisesRun ==
    \A n \in 1 .. Len(emitted) :
        LET points == emitted[n].lap.points
            corners == emitted[n].lap.corners
        IN  \A c \in 1 .. Len(corners) :
                \E i, j \in 1 .. Len(points) :
                    /\ ClosedRegion(points, i, j)
                    /\ corners[c].startDist = points[i].d
                    /\ corners[c].endDist = points[j].d
                    /\ \E k \in i .. j - 1 : corners[c].maxBrake = points[k].brake
                    /\ \A k \in i .. j - 1 : corners[c].maxBrake >= points[k].brake
                    /\ \E k \in i .. j - 1 : corners[c].minSpeed = points[k].speed
                    /\ \A k \in i .. j - 1 : corners[c].minSpeed <= points[k].speed
                    /\ corners[c].avgSteer = <<SteerSum(points, i, j), j - i>>
                    /\ corners[c].avgSteer[2] >= 1

\* an emitted lap whose second corner is a run of a turning point and a
\* braking point, after a first corner of one turning point
C28_Witness ==
    \E n \in 1 .. Len(emitted) :
        LET corners == emitted[n].lap.corners
        IN  /\ Len(corners) = 2
            /\ corners[1].avgSteer = <<-21, 1>>
            /\ corners[2].avgSteer = <<-21, 2>>
            /\ corners[2].maxBrake = 16
            /\ corners[2].minSpeed = MphFactor

\* the closed regions of a trace that are longer than 20 m
LongRegions(points) ==
    { r \in (1 .. Len(points)) \X (1 .. Len(points)) :
        /\ ClosedRegion(points, r[1], r[2])
        /\ points[r[2]].d - points[r[1]].d > MinCornerLength }

\* C29: the corners of an emitted lap are numbered 1, 2, ..., n in the order
\* of the list, which is the order of increasing start distance; there are as
\* many corners as closed regions longer than 20 m, so a region that is too
\* short or still open takes no number; and each corner ends before the next
\* one starts.
C29_CornerIndicesConsecutive ==
    \A n \in 1 .. Len(emitted) :
        LET points == emitted[n].lap.points
            corners == emitted[n].lap.corners
        IN  /\ \A c \in 1 .. Len(corners) : corners[c].index = c
            /\ Len(corners) = Cardinality(LongRegions(points))
            /\ \A c \in 1 .. Len(corners) - 1 :
                  /\ corners[c].startDist < corners[c + 1].startDist
                  /\ corners[c].endDist < corners[c + 1].startDist

\* an emitted lap whose trace begins with a region of exactly 20 m, which is
\* discarded, and whose only corner, numbered 1, starts after that region
C29_Witness ==
    \E n \in 1 .. Len(emitted) :
        LET points == emitted[n].lap.points
            corners == emitted[n].lap.corners
        IN  /\ Len(corners) = 1
            /\ corners[1].index = 1
            /\ \E j \in 2 .. Len(points) :
                  /\ ClosedRegion(points, 1, j)
                  /\ points[j].d - points[1].d = MinCornerLength
                  /\ points[j].d < corners[1].startDist

-----------------------------------------------------------------------------
(* Specification SpecStart: where a lap begins.  The odometer stands still, *)
(* so a lap's only trace point is the sample that began it; that sample is *)
(* before gate 0, on its line, or past one, two or all three gates.        *)

StartPositions == { Pt(1, 2), Pt(2, 2), Pt(3, 2), Pt(5, 2), Pt(7, 2) }

StartSamples ==
    { Sample(1, pos, lap, 9, 0, 0, FALSE) : pos \in StartPositions, lap \in RawLaps }

IngestStart ==
    \E t \in StartSamples :
        /\ NoLapReset(t)
        /\ useLapManagerEffect(t)

NextStart == IngestStart

SpecStart == Init /\ [][NextStart]_vars

-----------------------------------------------------------------------------
(* Properties of SpecStart *)

\* the gates the car has passed: the dot product of (car - center) with the
\* gate normal is positive
GatesPassed(p) == { g \in 0 .. GateCount - 1 : GateDot(g, p.x, p.z) > 0 }

\* the cursor the claim describes for a lap begun at p: the first gate whose
\* dot product is positive, when there is one
FirstGatePassed(p) == CHOOSE g \in GatesPassed(p) : \A h \in GatesPassed(p) : g <= h

\* the cursor the scan leaves for a lap begun at p: the first gate whose dot
\* product is not positive, gate 0 when every gate's is
FirstGateAhead(p) ==
    IF GatesPassed(p) = 0 .. GateCount - 1 THEN 0
    ELSE CHOOSE g \in (0 .. GateCount - 1) \ GatesPassed(p) :
             \A h \in 0 .. g - 1 : h \in GatesPassed(p)

\* C16 as stated: at a lap boundary the scan skips every gate whose dot
\* product is <= 0 and the first gate whose dot product is positive becomes
\* the next-expected gate.  (With one trace point the cursor is still the one
\* the boundary set, and the point is the boundary sample's position.)
C16_FirstPositiveGateIsNext ==
    (Len(current.points) = 1 /\ GatesPassed(current.points[1]) # {}) =>
        /\ current.nextGateIdx = FirstGatePassed(current.points[1])
        /\ findStartGateIdx(current.points[1]) = FirstGatePassed(current.points[1])

\* C16 (amended): at a lap boundary the scan skips every gate whose dot
\* product is positive (the gates behind the car) and the first gate whose
\* dot product is <= 0 becomes the next-expected gate; when every gate's dot
\* product is positive the next-expected gate is gate 0.  findStartGateIdx
\* gives the same gate for the lap's first trace point.
C16_FirstGateNotPassedIsNext ==
    Len(current.points) = 1 =>
        /\ current.nextGateIdx = FirstGateAhead(current.points[1])
        /\ findStartGateIdx(current.points[1]) = FirstGateAhead(current.points[1])

\* lap 1 began past gate 0 and before gate 1 after lap 0 had begun on the
\* line of gate 0: its cursor is gate 1
C16_Witness ==
    /\ Len(emitted) = 1
    /\ emitted[1].lap.points[1].x = 2
    /\ Len(current.points) = 1
    /\ GatesPassed(current.points[1]) = {0}
    /\ current.nextGateIdx = 1

-----------------------------------------------------------------------------
(* Specification SpecClock: the two clocks of the lap time.  A sample      *)
(* reports LastLap 0.9 s or nothing (0), at race time 0, 1.1 s or 2.2 s.   *)

MaxClockLaps == 3

RaceClocks == { <<9, 0>>, <<9, 11>>, <<0, 0>>, <<0, 11>>, <<0, 22>> }

ClockSamples ==
    { Sample(1, Pt(3, 2), lap, clk[1], clk[2], 0, FALSE) :
        lap \in RawLaps, clk \in RaceClocks }

IngestClock ==
    \E t \in ClockSamples :
        /\ ClosesLap(t) => NumFinalized < MaxClockLaps
        /\ useLapManagerEffect(t)

NextClock == IngestClock

SpecClock == Init /\ [][NextClock]_vars

-----------------------------------------------------------------------------
(* Properties of SpecClock *)

\* the lap time the claim gives for an emitted lap: from the sample that
\* triggered the boundary and the race time of the sample that began the lap
ClaimedLapTime(e) ==
    IF e.trigger.LastLap > 0
    THEN e.trigger.LastLap
    ELSE e.trigger.CurrentRaceTime - e.startClock

\* C17: the final time of a finished lap is the LastLap of the sample that
\* triggers the boundary when that is positive, and otherwise that sample's
\* CurrentRaceTime minus the race time at which the finished lap began.
C17_LapTimePrefersLastLap ==
    /\ \A i \in 1 .. Len(emitted) :
          emitted[i].lap.finalTime = ClaimedLapTime(emitted[i])
    /\ \A i \in 1 .. Len(laps) :
          \E j \in 1 .. Len(emitted) :
              /\ emitted[j].lap = laps[i]
              /\ laps[i].finalTime = ClaimedLapTime(emitted[j])

\* one lap was timed by LastLap although the race clock had advanced 1.1 s,
\* and a lap begun at race time 1.1 s was timed by the fallback
C17_Witness ==
    \E i, j \in 1 .. Len(emitted) :
        /\ emitted[i].trigger = [LastLap |-> 9, CurrentRaceTime |-> 11]
        /\ emitted[i].startClock = 0
        /\ emitted[i].lap.finalTime = 9
        /\ emitted[j].trigger = [LastLap |-> 0, CurrentRaceTime |-> 22]
        /\ emitted[j].startClock = 11
        /\ emitted[j].lap.finalTime = 11

\* the arrays of the emitted laps
EmittedArrays ==
    UNION { {emitted[i].pointsId, emitted[i].checkpointsId} : i \in 1 .. Len(emitted) }

\* C15: a run of the effect leaves every lap already in the laps list as it
\* is (points, checkpoints, corners, invalid flag, lap number, final time),
\* and the step that emits a lap starts the next trace and checkpoint list
\* afresh; the arrays of the in-progress lap are never arrays of an emitted
\* lap, and no two emitted laps share an array.
C15_EmittedLapImmutable ==
    /\ [][input'.seen =>
            /\ Len(laps') >= Len(laps)
            /\ \A i \in 1 .. Len(laps) : laps'[i] = laps[i]]_vars
    /\ [][/\ Len(emitted') >= Len(emitted)
          /\ \A i \in 1 .. Len(emitted) : emitted'[i] = emitted[i]
          /\ Len(emitted') > Len(emitted) =>
                /\ Len(current'.points) = 1
                /\ current'.points[1].time = emitted'[Len(emitted')].trigger.CurrentRaceTime
                /\ current'.checkpoints = <<>>]_vars
    /\ [](/\ lapLog.pointsId \notin EmittedArrays
          /\ lapLog.checkpointsId \notin EmittedArrays
          /\ lapLog.pointsId # lapLog.checkpointsId
          /\ Cardinality(EmittedArrays) = 2 * Len(emitted))

\* two laps are in the list and the third is in progress with its own trace
C15_Witness ==
    /\ Len(laps) >= 2
    /\ Len(emitted) >= 2
    /\ current.lapNumber > laps[Len(laps)].lapNumber
    /\ Len(current.points) > 0
    /\ lapLog.pointsId > emitted[Len(emitted)].pointsId

-----------------------------------------------------------------------------
(* Specification SpecGeom: segmentsIntersect applied to four points of an  *)
(* integer grid.                                                           *)

GridMax == 2

Grid == { Pt(x, z) : x \in 0 .. GridMax, z \in 0 .. GridMax }

InitGeom ==
    /\ LapManagerInit
    /\ ServerInit
    /\ MockInit
    /\ UiInit
    /\ probe \in { [fn |-> "segmentsIntersect", A |-> A, B |-> B, C |-> C, D |-> D,
                     done |-> FALSE, result |-> FALSE] :
                       A \in Grid, B \in Grid, C \in Grid, D \in Grid }

ApplySegmentsIntersect ==
    /\ probe.fn = "segmentsIntersect"
    /\ ~probe.done
    /\ probe' = [probe EXCEPT !.done = TRUE,
                              !.result = segmentsIntersect(probe.A, probe.B,
                                                           probe.C, probe.D)]
    /\ UNCHANGED <<lmVars, histVars, srvVars, mockVars, uiVars>>

NextGeom == ApplySegmentsIntersect

SpecGeom == InitGeom /\ [][NextGeom]_vars

-----------------------------------------------------------------------------
(* Properties of SpecGeom *)

\* the expression whose sign is the orientation of P, Q, R
Orient(P, Q, R) == (R.z - P.z) * (Q.x - P.x) - (Q.z - P.z) * (R.x - P.x)

\* negative, zero or positive
Sign(n) == IF n < 0 THEN -1 ELSE IF n = 0 THEN 0 ELSE 1

\* C18 as stated: segmentsIntersect(A, B, C, D) is true exactly when the
\* orientations of C and of D relative to AB differ and those of A and of B
\* relative to CD differ, the orientation being the sign, negative, zero or
\* positive, of Orient.
C18_ThreeWayOrientation ==
    probe.done =>
        probe.result =
            (/\ Sign(Orient(probe.A, probe.B, probe.C))
                   # Sign(Orient(probe.A, probe.B, probe.D))
             /\ Sign(Orient(probe.C, probe.D, probe.A))
                   # Sign(Orient(probe.C, probe.D, probe.B)))

\* C18 (amended): the same, the orientation being whether Orient is positive
\* or not: zero (three collinear points) counts with negative.
C18_PositiveOrNotOrientation ==
    probe.done =>
        probe.result =
            (/\ (Orient(probe.A, probe.B, probe.C) > 0)
                   # (Orient(probe.A, probe.B, probe.D) > 0)
             /\ (Orient(probe.C, probe.D, probe.A) > 0)
                   # (Orient(probe.C, probe.D, probe.B) > 0))

\* D lies on the line AB and C on its negative side, A and B lie on the two
\* sides of CD: the segments touch and segmentsIntersect is false
C18_Witness ==
    /\ probe.fn = "segmentsIntersect"
    /\ probe.done
    /\ Orient(probe.A, probe.B, probe.D) = 0
    /\ Orient(probe.A, probe.B, probe.C) < 0
    /\ Sign(Orient(probe.C, probe.D, probe.A)) = -Sign(Orient(probe.C, probe.D, probe.B))
    /\ Orient(probe.C, probe.D, probe.A) # 0
    /\ ~probe.result

-----------------------------------------------------------------------------
(* Specification SpecDecode: parseDashPacket applied to a buffer.  The     *)
(* buffers are datagrams of every length from 232 to 345 bytes and three   *)
(* shorter ones, laid out with and without the 12-byte padding.            *)

ProbeLengths == {0, 4, 231} \cup (SledLength .. 345)

ProbeBuffers ==
    { Datagram(len, raceOn, base) :
        len \in ProbeLengths, raceOn \in {0, 1}, base \in {SledLength, PaddedDashStart} }

InitDecode ==
    /\ LapManagerInit
    /\ ServerInit
    /\ MockInit
    /\ UiInit
    /\ probe \in { [fn |-> "parseDashPacket", buf |-> buf, done |-> FALSE,
                     result |-> Threw] : buf \in ProbeBuffers }

ApplyParseDashPacket ==
    /\ probe.fn = "parseDashPacket"
    /\ ~probe.done
    /\ probe' = [probe EXCEPT !.done = TRUE, !.result = parseDashPacket(probe.buf)]
    /\ UNCHANGED <<lmVars, histVars, srvVars, mockVars, uiVars>>

NextDecode == ApplyParseDashPacket

SpecDecode == InitDecode /\ [][NextDecode]_vars

-----------------------------------------------------------------------------
(* Properties of SpecDecode *)

\* the position, speed, distance and lap fields
ExtendedFields ==
    { "PositionX", "PositionY", "PositionZ", "Speed", "DistanceTraveled",
      "BestLap", "LastLap", "CurrentLap", "CurrentRaceTime", "LapNumber" }

\* C20: for a buffer of 232 to 299 bytes parseDashPacket returns without
\* throwing, and its result has exactly the fields of the fixed section, with
\* the values at their offsets: the position, speed, distance and lap fields
\* are not properties of the result at all.
C20_SledOnlyBelow300 ==
    (probe.done /\ probe.buf.length >= 232 /\ probe.buf.length < 300) =>
        /\ ~probe.result.threw
        /\ DOMAIN probe.result.fields = FieldNames(SledLayout)
        /\ ExtendedFields \cap DOMAIN probe.result.fields = {}
        /\ probe.result.fields["IsRaceOn"] = readInt32LE(probe.buf, 0)
        /\ probe.result.fields["NumCylinders"] = readInt32LE(probe.buf, 228)

\* a buffer of 299 bytes that carries the first Dash extras at offset 232
\* was decoded to the 58 Sled fields
C20_Witness ==
    /\ probe.fn = "parseDashPacket"
    /\ probe.done
    /\ probe.buf.length = 299
    /\ readFloatLE(probe.buf, 232) = 101
    /\ ~probe.result.threw
    /\ Cardinality(DOMAIN probe.result.fields) = 58

\* the result has every field of layout, each with the value at base plus
\* the field's offset
DecodedAt(result, buf, layout, base) ==
    /\ ~result.threw
    /\ FieldNames(layout) \subseteq DOMAIN result.fields
    /\ \A i \in 1 .. Len(layout) :
          result.fields[layout[i][1]]
              = ReadAt(buf, layout[i][4], base + layout[i][2])

\* C21 as stated: for every buffer of 300 to 323 bytes parseDashPacket
\* returns the extended section decoded from offset 232, and for every buffer
\* of 324 bytes or more the extended section decoded from offset 244.
C21_ExtendedOffsetByLength ==
    (probe.done /\ probe.buf.length >= 300) =>
        DecodedAt(probe.result, probe.buf, DashLayout,
                  IF probe.buf.length >= 324 THEN 244 ELSE 232)

\* C21 (amended): for every buffer of 311 to 323 bytes parseDashPacket
\* returns the extended section decoded from offset 232, and for every buffer
\* of 324 bytes or more the extended section decoded from offset 244; for a
\* buffer of 300 to 310 bytes the extended section, read from offset 232,
\* ends beyond the buffer, the decode throws and no field is returned.
C21_ExtendedOffsetWhenComplete ==
    /\ (probe.done /\ probe.buf.length >= 311) =>
          DecodedAt(probe.result, probe.buf, DashLayout,
                    IF probe.buf.length >= 324 THEN 244 ELSE 232)
    /\ (probe.done /\ probe.buf.length >= 300 /\ probe.buf.length < 311) =>
          probe.result = Threw

\* a buffer of 323 bytes laid out without padding was decoded from offset
\* 232: PositionX is the value at 232, the last single-byte field the value
\* at 310
C21_Witness ==
    /\ probe.fn = "parseDashPacket"
    /\ probe.done
    /\ probe.buf.length = 323
    /\ readFloatLE(probe.buf, 232) = 101
    /\ ~probe.result.threw
    /\ probe.result.fields["PositionX"] = 101
    /\ probe.result.fields["NormalizedAIBrakeDifference"] = 127

\* the offset the extended section of a buffer of len bytes is read from
ExtendedOffset(len) == IF len >= 324 THEN 244 ELSE 232

\* the four tire-wear floats and the track ordinal are in the result, with
\* the values at offset base + 80 and on
TrailingBlockDecoded(result, buf, base) ==
    DecodedAt(result, buf, ExtrasLayout, base + 80)

\* none of the five is a property of the result
TrailingBlockAbsent(result) ==
    FieldNames(ExtrasLayout) \cap DOMAIN result.fields = {}

\* C22 as stated, for the buffers whose extended section is decoded (300
\* bytes or more): the trailing block is decoded exactly when the buffer has
\* at least extended_offset + 100 bytes; when it has fewer, the block's
\* fields are absent and all other extended fields are still returned.
C22_TrailingBlockIffPresent ==
    (probe.done /\ probe.buf.length >= 300) =>
        LET off == ExtendedOffset(probe.buf.length)
        IN  /\ TrailingBlockDecoded(probe.result, probe.buf, off)
                  <=> probe.buf.length >= off + 100
            /\ probe.buf.length < off + 100 =>
                  /\ TrailingBlockAbsent(probe.result)
                  /\ DecodedAt(probe.result, probe.buf, DashLayout, off)

\* C22 (amended): the same for the buffers of 311 bytes or more; a buffer of
\* 300 to 310 bytes has fewer than extended_offset + 100 bytes and no field
\* of it is returned, the other extended fields no more than the block's.
C22_TrailingBlockIffPresentWhenComplete ==
    /\ (probe.done /\ probe.buf.length >= 311) =>
          LET off == ExtendedOffset(probe.buf.length)
          IN  /\ TrailingBlockDecoded(probe.result, probe.buf, off)
                    <=> probe.buf.length >= off + 100
              /\ probe.buf.length < off + 100 =>
                    /\ TrailingBlockAbsent(probe.result)
                    /\ DecodedAt(probe.result, probe.buf, DashLayout, off)
    /\ (probe.done /\ probe.buf.length >= 300 /\ probe.buf.length < 311) =>
          /\ probe.buf.length < ExtendedOffset(probe.buf.length) + 100
          /\ probe.result.threw
          /\ DOMAIN probe.result.fields = {}

\* a padded buffer of 343 bytes, one byte short of the end of the trailing
\* block, whose first four trailing fields are in the buffer: the result has
\* the other extended fields and none of the block's
C22_Witness ==
    /\ probe.fn = "parseDashPacket"
    /\ probe.done
    /\ probe.buf.length = 343
    /\ readFloatLE(probe.buf, 244 + 80) = 201
    /\ readFloatLE(probe.buf, 244 + 92) = 204
    /\ ~probe.result.threw
    /\ "TireWearFL" \notin DOMAIN probe.result.fields
    /\ probe.result.fields["PositionX"] = 101
    /\ probe.result.fields["Gear"] = 124

\* the five fields of the trailing block are properties of the result
TrailingBlockPresent(result) ==
    ~result.threw /\ FieldNames(ExtrasLayout) \subseteq DOMAIN result.fields

\* C34: for every buffer length the trailing tire-wear and track-ordinal
\* block is in the decoded result exactly when the buffer has 344 bytes or
\* more; a result that has it has the extended section read at offset 244
\* and the block at 324, never the extended section read at offset 232.
C34_TrailingBlockOnlyPadded ==
    probe.done =>
        /\ TrailingBlockPresent(probe.result) <=> probe.buf.length >= 344
        /\ TrailingBlockPresent(probe.result) =>
              /\ DecodedAt(probe.result, probe.buf, DashLayout, 244)
              /\ DecodedAt(probe.result, probe.buf, ExtrasLayout, 324)
              /\ \E name \in FieldNames(DashLayout) :
                    probe.result.fields[name]
                        # ReadAt(probe.buf, MethodOf(DashLayout, name),
                                 232 + OffsetOf(DashLayout, name))
        /\ (probe.buf.length < 344 /\ ~probe.result.threw) =>
              TrailingBlockAbsent(probe.result)

\* a 344-byte buffer laid out from offset 244 has been decoded: the result
\* has the whole block; and its length is the least with that outcome
C34_Witness ==
    /\ probe.fn = "parseDashPacket"
    /\ probe.done
    /\ probe.buf.length = 344
    /\ readFloatLE(probe.buf, 244) = 101
    /\ TrailingBlockPresent(probe.result)
    /\ probe.result.fields["TireWearFL"] = 201
    /\ probe.result.fields["TrackOrdinal"] = 205

-----------------------------------------------------------------------------
(* The telemetry server: the WebSocket and UDP handlers.  A WebSocket's    *)
(* readyState is 0 before its connection event, 1 (OPEN) from then on, 2   *)
(* while it closes and 3 from its close event on.  All values a payload    *)
(* carries here are finite numbers and booleans, which JSON.stringify      *)
(* keeps; the payload is the object sent, under the tag json.              *)

\* Throttled with 1000 / BROADCAST_HZ rounded down to 33 ms
Throttled_WholeMs(now) == now - lastBroadcastTime < 1000 \div BROADCAST_HZ

\* now - lastBroadcastTime < 1000 / BROADCAST_HZ
Throttled(now) == BROADCAST_HZ * (now - lastBroadcastTime) < 1000

\* TooShort with the comparison the wrong way round
TooShort_Inverted(msg) == msg.length > MinPacketLength

\* msg.length < 232
TooShort(msg) == msg.length < MinPacketLength

\* MarkGamePaused that sets the indicator on every sample
MarkGamePaused_Always(telemetry) ==
    Spread(telemetry, [name \in {"_gamePaused"} |-> TRUE])

\* if (telemetry.IsRaceOn === 0) telemetry._gamePaused = true
MarkGamePaused(telemetry) ==
    IF telemetry["IsRaceOn"] = 0
    THEN Spread(telemetry, [name \in {"_gamePaused"} |-> TRUE])
    ELSE telemetry

\* the clients the for loop sends to
OpenClients == { clients[i] : i \in { k \in 1 .. Len(clients) : readyState[clients[k]] = 1 } }

\* Broadcast whose catch sends the fields decoded before the error
Broadcast_PartialOnError(msg) ==
    IF TooShort(msg)
    THEN [outcome |-> "short", payload |-> <<>>, to |-> {}]
    ELSE LET parsed == parseDashPacket(msg)
         IN  [outcome |-> "sent",
              payload |-> <<[json |-> MarkGamePaused(
                                IF parsed.threw
                                THEN ReadFields(msg, SledLayout, 0)
                                ELSE parsed.fields)]>>,
              to |-> OpenClients]

\* the try block: what becomes of a datagram that passed the throttle
Broadcast(msg) ==
    IF TooShort(msg)
    THEN [outcome |-> "short", payload |-> <<>>, to |-> {}]
    ELSE LET parsed == parseDashPacket(msg)
         IN  IF parsed.threw
             THEN [outcome |-> "error", payload |-> <<>>, to |-> {}]
             ELSE [outcome |-> "sent",
                   payload |-> <<[json |-> MarkGamePaused(parsed.fields)]>>,
                   to |-> OpenClients]

\* wss.on('connection', ws => ...)
onConnection(ws) ==
    /\ readyState[ws] = 0
    /\ readyState' = [readyState EXCEPT ![ws] = 1]
    /\ clients' = Append(clients, ws)
    /\ UNCHANGED <<lastBroadcastTime, isReceiving, wall, delivered, handled>>
    /\ UNCHANGED <<lmVars, histVars, probe, mockVars, uiVars>>

\* the WebSocket starts to close (ws library)
socketClosing(ws) ==
    /\ readyState[ws] = 1
    /\ readyState' = [readyState EXCEPT ![ws] = 2]
    /\ UNCHANGED <<lastBroadcastTime, isReceiving, clients, wall, delivered, handled>>
    /\ UNCHANGED <<lmVars, histVars, probe, mockVars, uiVars>>

\* ws.on('close', ...): clients = clients.filter(c => c !== ws)
onClose(ws) ==
    /\ readyState[ws] \in {1, 2}
    /\ readyState' = [readyState EXCEPT ![ws] = 3]
    /\ clients' = SelectSeq(clients, LAMBDA c : c # ws)
    /\ UNCHANGED <<lastBroadcastTime, isReceiving, wall, delivered, handled>>
    /\ UNCHANGED <<lmVars, histVars, probe, mockVars, uiVars>>

\* server.on('message', (msg, rinfo) => ...), with Date.now() = now
onMessage(msg, now) ==
    /\ isReceiving' = TRUE
    /\ wall' = now
    /\ IF Throttled(now)
       THEN /\ handled' = [count |-> handled.count + 1, length |-> msg.length,
                           outcome |-> "throttled", sentTo |-> {},
                           before |-> handled.outcome,
                           sentTimes |-> handled.sentTimes]
            /\ UNCHANGED <<lastBroadcastTime, delivered>>
       ELSE LET done == Broadcast(msg)
            IN  /\ lastBroadcastTime' = now
                /\ delivered' = [ws \in Sockets |->
                                    IF ws \in done.to
                                    THEN delivered[ws] \o done.payload
                                    ELSE delivered[ws]]
                /\ handled' = [count |-> handled.count + 1, length |-> msg.length,
                               outcome |-> done.outcome, sentTo |-> done.to,
                               before |-> handled.outcome,
                               sentTimes |-> IF done.outcome = "sent"
                                             THEN Append(handled.sentTimes, now)
                                             ELSE handled.sentTimes]
    /\ UNCHANGED <<clients, readyState>>
    /\ UNCHANGED <<lmVars, histVars, probe, mockVars, uiVars>>

-----------------------------------------------------------------------------
(* Specification SpecServer: the server alone.  Datagrams of 0 and 231     *)
(* bytes (too short), 232 (Sled only), 310 (Dash cut off) and 324 bytes    *)
(* (padded Dash, race on and off) arrive 33 or 34 ms after the last one.   *)

MaxDatagrams == 2

ServerDatagrams ==
    { Datagram(0, 1, SledLength), Datagram(231, 1, SledLength),
      Datagram(232, 1, SledLength), Datagram(310, 1, SledLength),
      Datagram(324, 0, PaddedDashStart), Datagram(324, 1, PaddedDashStart) }

Arrivals == { 33, 34 }

Receive ==
    \E msg \in ServerDatagrams, gap \in Arrivals :
        /\ handled.count < MaxDatagrams
        /\ onMessage(msg, wall + gap)

NextServer ==
    \/ \E ws \in Sockets : onConnection(ws)
    \/ \E ws \in Sockets : socketClosing(ws)
    \/ \E ws \in Sockets : onClose(ws)
    \/ Receive

SpecServer == Init /\ [][NextServer]_vars

-----------------------------------------------------------------------------
(* Properties of SpecServer *)

\* C19: a datagram shorter than 232 bytes is not decoded: the handler
\* returns at the throttle or at the length test, no error is raised, no
\* payload is built, and no WebSocket is sent anything for it.
C19_ShortDatagramNotSent ==
    [][(handled'.count # handled.count /\ handled'.length < 232) =>
          /\ handled'.outcome \in {"throttled", "short"}
          /\ handled'.sentTo = {}
          /\ delivered' = delivered]_vars

\* a datagram of 231 bytes passed the throttle and was dropped while a
\* WebSocket that had been sent an earlier datagram was still open
C19_Witness ==
    /\ handled.length = 231
    /\ handled.outcome = "short"
    /\ lastBroadcastTime = wall
    /\ \E ws \in Sockets :
          /\ readyState[ws] = 1
          /\ Len(delivered[ws]) = 1

\* the datagram just handled was handled'.length bytes long
Handles(len) == handled'.count # handled.count /\ handled'.length = len

\* C23: a datagram whose decode reads past its end (300 to 310 bytes) is a
\* contained error: the handler returns at the throttle or in the catch, no
\* WebSocket is sent anything for it, and the next datagram is handled as
\* any other: a complete one that passes the throttle is decoded and sent to
\* every open WebSocket.
C23_TruncatedDecodeContained ==
    /\ [][(\E len \in 300 .. 310 : Handles(len)) =>
            /\ handled'.outcome \in {"throttled", "error"}
            /\ handled'.sentTo = {}
            /\ delivered' = delivered]_vars
    /\ [][(handled.outcome = "error" /\ Handles(324)
             /\ ~Throttled(wall')) =>
            /\ handled'.outcome = "sent"
            /\ handled'.sentTo = OpenClients
            /\ \A ws \in OpenClients :
                  /\ Len(delivered'[ws]) = Len(delivered[ws]) + 1
                  /\ "PositionX" \in DOMAIN delivered'[ws][Len(delivered'[ws])].json]_vars

\* a datagram of 310 bytes raised the error while a WebSocket was open, and
\* the datagram after it was sent to that WebSocket, the first it received
C23_Witness ==
    /\ handled.before = "error"
    /\ handled.outcome = "sent"
    /\ \E ws \in handled.sentTo :
          /\ Len(delivered[ws]) = 1
          /\ handled.length = 324
          /\ "PositionX" \in DOMAIN delivered[ws][1].json
          /\ delivered[ws][1].json["PositionX"] = 101

\* C24: a datagram that is dropped because it is too short or because its
\* decode reads past its end leaves the server state as it was: clients,
\* what was delivered, and lastBroadcastTime, on which the throttling of the
\* datagrams after it depends.
C24_DroppedDatagramLeavesState ==
    [][(handled'.count # handled.count /\ handled'.outcome \in {"short", "error"}) =>
          /\ lastBroadcastTime' = lastBroadcastTime
          /\ clients' = clients
          /\ delivered' = delivered]_vars

\* C35: any two broadcasts are at least 1000 / 30 ms of Date.now() apart,
\* and a datagram that arrives less than 1000 / 30 ms after the last one
\* that passed the throttle is dropped before it is decoded: nothing is
\* sent and lastBroadcastTime stays.
C35_BroadcastsThrottled ==
    /\ [](\A i, j \in 1 .. Len(handled.sentTimes) :
              i < j => 30 * (handled.sentTimes[j] - handled.sentTimes[i]) >= 1000)
    /\ [][(handled'.count # handled.count
            /\ 30 * (wall' - lastBroadcastTime) < 1000)
            => /\ handled'.outcome = "throttled"
               /\ delivered' = delivered
               /\ lastBroadcastTime' = lastBroadcastTime]_vars

\* two datagrams 34 ms apart were both broadcast to a WebSocket
C35_Witness ==
    /\ Len(handled.sentTimes) = 2
    /\ handled.sentTimes[2] - handled.sentTimes[1] = 34
    /\ \E ws \in Sockets : Len(delivered[ws]) = 2

-----------------------------------------------------------------------------
(* Specification SpecMock: the mock sender and the decoder.  Every run of  *)
(* the sender's callback sends the packet; parseDashPacket is applied to   *)
(* the datagram before the next run, or the datagram is lost.              *)

MaxMockRuns == 140

\* setInterval(() => { ... client.send(packet, ...) ... }, 100)
mockInterval ==
    /\ mock.timestamp < 100 * MaxMockRuns
    /\ mock' = MockAfter(mock)
    /\ packet' = MockPacket(MockAtSend(mock))
    /\ probe' = [fn |-> "parseDashPacket", buf |-> MockPacket(MockAtSend(mock)),
                 done |-> FALSE, result |-> Threw, sent |-> MockAtSend(mock)]
    /\ UNCHANGED <<lmVars, histVars, srvVars, uiVars>>

NextMock == mockInterval \/ ApplyParseDashPacket

SpecMock == Init /\ [][NextMock]_vars

-----------------------------------------------------------------------------
(* Properties of SpecMock *)

\* C25: the packet the mock sender builds round-trips through
\* parseDashPacket: the decoded PositionX, PositionZ, Speed, Gear, LapNumber,
\* CurrentLap and DistanceTraveled are the values the sender wrote for them
\* (a float as the 4-byte float nearest to the value written).
C25_MockPacketRoundTrips ==
    (probe.fn = "parseDashPacket" /\ probe.done) =>
        /\ ~probe.result.threw
        /\ probe.result.fields["PositionX"] = FloatOfBytes(BytesOfDouble(probe.sent.posX))
        /\ probe.result.fields["PositionZ"] = FloatOfBytes(BytesOfDouble(probe.sent.posZ))
        /\ probe.result.fields["Speed"] = FloatLE(probe.sent.speed, 2)
        /\ probe.result.fields["Gear"] = probe.sent.gear
        /\ probe.result.fields["LapNumber"] = 0
        /\ probe.result.fields["CurrentLap"] = FloatOfBytes(BytesOfDouble(probe.sent.currLapTime))
        /\ probe.result.fields["DistanceTraveled"] = FloatOfBytes(BytesOfDouble(probe.sent.dist))

-----------------------------------------------------------------------------
(* Specification SpecReset: lap boundaries of every kind.  A sample is     *)
(* before or past gate 0, at odometer 0 or 512 m, paused or not, and       *)
(* either reports LastLap 0.9 s at race time 1.1 s (the finished lap is    *)
(* saved) or nothing at race time 0 (it is not).  Laps 0, 1, 2, no reset   *)
(* of the lap counter; the car and the odometer do not go back.            *)

ResetSamples ==
    { Sample(1, pos, lap, clk[1], clk[2], dist, paused) :
        pos \in { Pt(1, 2), Pt(3, 2) }, lap \in RawLaps,
        clk \in { <<9, 11>>, <<0, 0>> }, dist \in { 0, 512 },
        paused \in BOOLEAN }

IngestReset ==
    \E t \in ResetSamples :
        /\ NoLapReset(t)
        /\ DrivesForward(t)
        /\ t.DistanceTraveled >= lapLog.lastDistance
        /\ useLapManagerEffect(t)

NextReset == IngestReset

SpecReset == Init /\ [][NextReset]_vars

-----------------------------------------------------------------------------
(* Properties of SpecReset *)

\* the step processes an accepted sample whose effective lap number is not
\* the in-progress one
BoundaryStep ==
    /\ input'.seen
    /\ input'.IsRaceOn # 0
    /\ ~input'.atOrigin
    /\ effectiveLap' # current.lapNumber

\* C26: a boundary step, whether it saves the finished lap, drops it or has
\* none to finish, leaves the in-progress lap reset from its sample: the lap
\* number is the effective one, start time, start distance and last
\* checkpoint distance are the sample's, there is no checkpoint, no gate is
\* counted, invalid is the sample's paused indicator, and the trace is one
\* point, the sample's position at relative distance 0.
C26_BoundaryResetsAccumulators ==
    [][BoundaryStep =>
          /\ current'.lapNumber = effectiveLap'
          /\ current'.startTime = lapLog'.startClock
          /\ current'.startDistance = lapLog'.startDistance
          /\ current'.lastCheckpointDistance = lapLog'.startDistance
          /\ current'.checkpoints = <<>>
          /\ current'.gatesCrossed = 0
          /\ current'.invalid = pausedSeen'
          /\ Len(current'.points) = 1
          /\ current'.points[1].x = lapLog'.startPosition.x
          /\ current'.points[1].z = lapLog'.startPosition.z
          /\ current'.points[1].d = 0]_vars

\* lap 0, with a gate crossed and a checkpoint, was saved; lap 1 was
\* dropped at the boundary to lap 2, whose first sample was paused, at
\* odometer 512 m and race time 0
C26_Witness ==
    /\ Len(emitted) = 1
    /\ emitted[1].gatesCrossed = 1
    /\ Len(emitted[1].lap.checkpoints) = 1
    /\ discarded = {1}
    /\ current.lapNumber = 2
    /\ current.invalid
    /\ current.startDistance = 512
    /\ Len(current.points) = 1
    /\ current.checkpoints = <<>>

-----------------------------------------------------------------------------
(* Specification SpecRerun: the effect's dependencies are telemetryData    *)
(* and currentPlayerName, so it runs once when a new sample is rendered    *)
(* and again, on the same sample, each time the player name changes.  The  *)
(* lap counter may go back (game-side reset), samples may be paused, at    *)
(* the origin or with the race off, and the odometer is at 0, 11 or 512 m. *)

MaxRuns == 2

RerunSamples ==
    { t \in { Sample(on, pos, lap, 9, 0, dist, paused) :
                on \in {0, 1}, pos \in { Pt(0, 0), Pt(3, 2) },
                lap \in {0, 1}, dist \in { 0, OdoStep, CheckpointSpacing + OdoStep + 1 },
                paused \in BOOLEAN } :
        ~Accepted(t) => (t.LapNumber = 0 /\ t.DistanceTraveled = 0 /\ ~t.gamePaused) }

\* a render with a new telemetryData: the effect runs on it
renderSample ==
    \E t \in RerunSamples :
        /\ ClosesLap(t) => NumFinalized < MaxTraceLaps
        /\ t.DistanceTraveled >= lapLog.lastDistance
        /\ LapManagerStep(t)
        /\ telemetryData' = [sample |-> t, runs |-> 1]
        /\ UNCHANGED <<srvVars, probe, mockVars, received, connVars, selVars, lapsFetch>>

\* a render with the same telemetryData and a new currentPlayerName: the
\* effect runs again on the same sample
renderPlayerName ==
    /\ telemetryData.runs >= 1
    /\ telemetryData.runs < MaxRuns
    /\ LapManagerStep(telemetryData.sample)
    /\ telemetryData' = [telemetryData EXCEPT !.runs = telemetryData.runs + 1]
    /\ UNCHANGED <<srvVars, probe, mockVars, received, connVars, selVars, lapsFetch>>

NextRerun == renderSample \/ renderPlayerName

SpecRerun == Init /\ [][NextRerun]_vars

-----------------------------------------------------------------------------
(* Properties of SpecRerun *)

\* C32: a run of the effect on the sample it has just processed changes
\* neither the in-progress lap nor the rollover bookkeeping, and it emits no
\* lap, discards none, and adds no trace point and no checkpoint.
C32_RerunIdempotent ==
    [][telemetryData'.runs > 1 =>
          /\ current' = current
          /\ lapTracker' = lapTracker
          /\ laps' = laps
          /\ emitted' = emitted
          /\ discarded' = discarded]_vars

\* the effect has run twice on a paused sample whose lap number went back
\* (game-side reset), which closed the lap in progress and began a new one
C32_Witness ==
    /\ telemetryData.runs = 2
    /\ Accepted(telemetryData.sample)
    /\ telemetryData.sample.gamePaused
    /\ lapTracker.offset > 0
    /\ Len(emitted) = 1
    /\ current.lapNumber > emitted[1].lap.lapNumber
    /\ Len(current.points) = 1
    /\ current.invalid

-----------------------------------------------------------------------------
(* useTelemetry: the WebSocket client of the browser.  Time is counted in  *)
(* seconds.  A pending timeout has an id, what it runs ("stale" or         *)
(* "reconnect") and the seconds left; it runs when none are left, and time *)
(* does not pass while a timeout is due.  setTimeout returns an id that is *)
(* not pending and is not held in staleTimer.current or reconnectTimer;    *)
(* clearTimeout of an id that is not pending does nothing.  The WebSocket  *)
(* is "connecting", "open", "closing" (close() was called, the close event *)
(* is to come) or "closed"; a closing WebSocket delivers no message.       *)
(* setConnectionState does nothing once the component is unmounted.        *)

MaxTimers == 3

TimerIds == 1 .. MaxTimers

PendingOf(kind) == { id \in DOMAIN timers : timers[id].kind = kind }

\* the ids setTimeout may return
FreshTimers(ts) == { id \in TimerIds : id \notin DOMAIN ts \cup {staleTimer, reconnectTimer} }

FreshTimer(ts) == CHOOSE id \in FreshTimers(ts) : \A other \in FreshTimers(ts) : id <= other

\* the pending timeouts after clearTimeout(id)
ClearTimeout(ts, id) == [ i \in DOMAIN ts \ {id} |-> ts[i] ]

\* the pending timeouts after setTimeout(run, delay * 1000) returned id
SetTimeout(ts, id, run, delay) ==
    [ i \in DOMAIN ts \cup {id} |->
        IF i = id THEN [kind |-> run, left |-> delay] ELSE ts[i] ]

\* setConnectionState(state)
SetConnectionState(state) == IF mounted THEN state ELSE connectionState

\* setData(data): the next render is with data
SetData(data) == IF mounted THEN [sample |-> data, runs |-> 0] ELSE telemetryData

\* what ws.onmessage is called with: text that JSON.parse accepts or not
Messages ==
    { [ok |-> ok, data |-> Sample(1, Pt(3, 2), 0, 9, 0, 0, FALSE)] : ok \in BOOLEAN }

\* ws.onopen
wsOnOpen ==
    /\ wsState = "connecting"
    /\ wsState' = "open"
    /\ connectionState' = SetConnectionState("server-only")
    /\ UNCHANGED <<sinceData, staleTimer, reconnectTimer, timers, mounted>>
    /\ UNCHANGED <<lmVars, histVars, srvVars, probe, mockVars, telemetryData, received, selVars, lapsFetch>>

\* wsOnMessage that does not clear the previous stale timeout
wsOnMessage_NoClear(msg) ==
    /\ wsState = "open"
    /\ IF msg.ok
       THEN /\ FreshTimers(timers) # {}
            /\ sinceData' = 0
            /\ connectionState' = SetConnectionState("game-active")
            /\ telemetryData' = SetData(msg.data)
            /\ staleTimer' = FreshTimer(timers)
            /\ timers' = SetTimeout(timers, FreshTimer(timers), "stale", StaleDelay)
       ELSE UNCHANGED <<sinceData, connectionState, telemetryData, staleTimer, timers>>
    /\ UNCHANGED <<reconnectTimer, wsState, mounted>>
    /\ UNCHANGED <<lmVars, histVars, srvVars, probe, mockVars, selVars, lapsFetch>>

\* ws.onmessage, but for the count of the payloads handled: the catch
\* leaves everything as it was
wsOnMessage(msg) ==
    /\ wsState = "open"
    /\ IF msg.ok
       THEN LET cleared == ClearTimeout(timers, staleTimer)
            IN  /\ FreshTimers(cleared) # {}
                /\ sinceData' = 0
                /\ connectionState' = SetConnectionState("game-active")
                /\ telemetryData' = SetData(msg.data)
                /\ staleTimer' = FreshTimer(cleared)
                /\ timers' = SetTimeout(cleared, FreshTimer(cleared), "stale", StaleDelay)
       ELSE UNCHANGED <<sinceData, connectionState, telemetryData, staleTimer, timers>>
    /\ UNCHANGED <<reconnectTimer, wsState, mounted>>
    /\ UNCHANGED <<lmVars, histVars, srvVars, probe, mockVars, selVars, lapsFetch>>

\* injectData(mockData): setData(mockData)
injectData(mockData) ==
    /\ telemetryData' = SetData(mockData)
    /\ UNCHANGED connVars
    /\ UNCHANGED <<lmVars, histVars, srvVars, probe, mockVars, received, selVars, lapsFetch>>

\* React renders the page with the data set last, which no render has had,
\* and the effect of useLapManager runs on it
render ==
    /\ mounted
    /\ telemetryData # NoTelemetry
    /\ telemetryData.runs = 0
    /\ telemetryData' = [telemetryData EXCEPT !.runs = 1]
    /\ LapManagerStep(telemetryData.sample)
    /\ UNCHANGED <<srvVars, probe, mockVars, received, connVars, selVars, lapsFetch>>

\* the stale timeout runs: setConnectionState("server-only")
staleTimeout ==
    \E id \in PendingOf("stale") :
        /\ timers[id].left = 0
        /\ timers' = ClearTimeout(timers, id)
        /\ connectionState' = SetConnectionState("server-only")
        /\ UNCHANGED <<sinceData, staleTimer, reconnectTimer, wsState, mounted>>
        /\ UNCHANGED <<lmVars, histVars, srvVars, probe, mockVars, telemetryData, received, selVars, lapsFetch>>

\* ws.onerror: ws.close()
wsOnError ==
    /\ wsState \in {"connecting", "open"}
    /\ wsState' = "closing"
    /\ UNCHANGED <<connectionState, sinceData, staleTimer, reconnectTimer, timers, mounted>>
    /\ UNCHANGED <<lmVars, histVars, srvVars, probe, mockVars, telemetryData, received, selVars, lapsFetch>>

\* wsOnClose that leaves the stale timeout pending
wsOnClose_KeepStale ==
    /\ wsState \in {"open", "closing"}
    /\ FreshTimers(timers) # {}
    /\ wsState' = "closed"
    /\ connectionState' = SetConnectionState("disconnected")
    /\ reconnectTimer' = FreshTimer(timers)
    /\ timers' = SetTimeout(timers, FreshTimer(timers), "reconnect", ReconnectDelay)
    /\ UNCHANGED <<sinceData, staleTimer, mounted>>
    /\ UNCHANGED <<lmVars, histVars, srvVars, probe, mockVars, telemetryData, received, selVars, lapsFetch>>

\* ws.onclose
wsOnClose ==
    /\ wsState \in {"open", "closing"}
    /\ LET cleared == ClearTimeout(timers, staleTimer)
       IN  /\ FreshTimers(cleared) # {}
           /\ reconnectTimer' = FreshTimer(cleared)
           /\ timers' = SetTimeout(cleared, FreshTimer(cleared), "reconnect", ReconnectDelay)
    /\ wsState' = "closed"
    /\ connectionState' = SetConnectionState("disconnected")
    /\ UNCHANGED <<sinceData, staleTimer, mounted>>
    /\ UNCHANGED <<lmVars, histVars, srvVars, probe, mockVars, telemetryData, received, selVars, lapsFetch>>

\* the reconnect timeout runs connect(): ws = new WebSocket(...)
reconnectTimeout ==
    \E id \in PendingOf("reconnect") :
        /\ timers[id].left = 0
        /\ timers' = ClearTimeout(timers, id)
        /\ wsState' = "connecting"
        /\ UNCHANGED <<connectionState, sinceData, staleTimer, reconnectTimer, mounted>>
        /\ UNCHANGED <<lmVars, histVars, srvVars, probe, mockVars, telemetryData, received, selVars, lapsFetch>>

\* the effect's cleanup, at unmount
cleanup ==
    /\ mounted
    /\ mounted' = FALSE
    /\ timers' = ClearTimeout(ClearTimeout(timers, reconnectTimer), staleTimer)
    /\ wsState' = IF wsState \in {"connecting", "open"} THEN "closing" ELSE wsState
    /\ UNCHANGED <<connectionState, sinceData, staleTimer, reconnectTimer>>
    /\ UNCHANGED <<lmVars, histVars, srvVars, probe, mockVars, telemetryData, received, selVars, lapsFetch>>

\* a second passes
tick ==
    /\ \A id \in DOMAIN timers : timers[id].left > 0
    /\ timers' = [ id \in DOMAIN timers |->
                     [timers[id] EXCEPT !.left = timers[id].left - 1] ]
    /\ sinceData' = Min(sinceData + 1, StaleDelay)
    /\ UNCHANGED <<connectionState, staleTimer, reconnectTimer, wsState, mounted>>
    /\ UNCHANGED <<lmVars, histVars, srvVars, probe, mockVars, telemetryData, received, selVars, lapsFetch>>

-----------------------------------------------------------------------------
(* Specification SpecTelemetry: useTelemetry from mount to unmount and     *)
(* after.                                                                  *)

\* what runMockLap feeds injectData with in frame 0, Math.random() giving
\* 0: race on at the circuit's first point (0, 0), lap 0, all clocks and
\* the odometer 0, 65 m/s, no brake, no steering.  The later frames are at
\* points that are no whole metres.
MockData ==
    { [IsRaceOn |-> 1, PositionX |-> 0, PositionZ |-> 0, LapNumber |-> 0,
       LastLap |-> 0, CurrentRaceTime |-> 0, DistanceTraveled |-> 0,
       gamePaused |-> FALSE, CurrentLap |-> 0, Speed |-> 65, Brake |-> 0,
       Steer |-> 0] }

\* a message of a server that is not modelled
serverMessage == \E msg \in Messages : wsOnMessage(msg) /\ UNCHANGED received

NextTelemetry ==
    \/ wsOnOpen
    \/ serverMessage
    \/ \E mockData \in MockData : injectData(mockData)
    \/ render
    \/ staleTimeout
    \/ wsOnError
    \/ wsOnClose
    \/ reconnectTimeout
    \/ cleanup
    \/ tick

SpecTelemetry == Init /\ [][NextTelemetry]_vars

-----------------------------------------------------------------------------
(* Properties of SpecTelemetry *)

\* C36: a parsed message makes connectionState game-active and starts a
\* stale timeout of 3 seconds in place of the one before, so at most one
\* stale timeout is pending at any time; while connectionState is
\* game-active the stale timeout is pending and runs 3 seconds after the
\* last message; and game-active becomes server-only only when 3 seconds
\* have passed without a message.  (connectionState is the state of the
\* mounted component.)
C36_StaleWindowRestarts ==
    /\ [](/\ Cardinality(PendingOf("stale")) <= 1
          /\ (mounted /\ connectionState = "game-active") =>
                /\ staleTimer \in PendingOf("stale")
                /\ timers[staleTimer].left = StaleDelay - sinceData)
    /\ [][staleTimer' # staleTimer =>
            /\ mounted => connectionState' = "game-active"
            /\ PendingOf("stale")' = {staleTimer'}
            /\ timers'[staleTimer'].left = StaleDelay]_vars
    /\ [][(connectionState = "game-active" /\ connectionState' = "server-only") =>
            (sinceData = StaleDelay /\ wsState' = wsState)]_vars

\* messages came on the first WebSocket, and 3 seconds after the last one
\* the second stale timeout made connectionState server-only
C36_Witness ==
    /\ mounted
    /\ connectionState = "server-only"
    /\ wsState = "open"
    /\ reconnectTimer = NoTimer
    /\ staleTimer = 2
    /\ timers = <<>>
    /\ sinceData = StaleDelay

\* C38: once the cleanup has run no WebSocket is created and no timeout is
\* pending: the close event of the WebSocket the cleanup closed starts no
\* reconnect timeout.
C38_NothingAfterCleanup ==
    /\ [](~mounted => DOMAIN timers = {})
    /\ [][~mounted => ~(wsState' = "connecting" /\ wsState # "connecting")]_vars

-----------------------------------------------------------------------------
(* Specification SpecConnect: useTelemetry while the component stays       *)
(* mounted.  Time passes and due timeouts run; the close event of a        *)
(* WebSocket that close() was called on arrives; and the server accepts a  *)
(* connection attempt sooner or later (an attempt may fail, but they do    *)
(* not all fail).                                                          *)

NextConnect ==
    \/ wsOnOpen
    \/ serverMessage
    \/ render
    \/ staleTimeout
    \/ wsOnError
    \/ wsOnClose
    \/ reconnectTimeout
    \/ tick

SpecConnect ==
    /\ Init
    /\ [][NextConnect]_vars
    /\ WF_vars(tick)
    /\ WF_vars(staleTimeout)
    /\ WF_vars(reconnectTimeout)
    /\ WF_vars(wsState = "closing" /\ wsOnClose)
    /\ SF_vars(wsOnOpen)

-----------------------------------------------------------------------------
(* Properties of SpecConnect *)

\* C37: when the WebSocket closes, connectionState becomes disconnected, no
\* stale timeout stays pending (so none sets server-only while the socket is
\* closed) and a reconnect timeout of 3 seconds is started; the next
\* WebSocket is created when that timeout runs, 3 seconds after the close;
\* this holds after every close; and, the server accepting a connection
\* sooner or later, connectionState does not stay disconnected.
C37_CloseReconnects ==
    /\ [][(wsState' = "closed" /\ wsState # "closed") =>
            /\ connectionState' = "disconnected"
            /\ PendingOf("stale")' = {}
            /\ PendingOf("reconnect")' = {reconnectTimer'}
            /\ timers'[reconnectTimer'].left = ReconnectDelay]_vars
    /\ [](wsState = "closed" =>
            /\ connectionState = "disconnected"
            /\ PendingOf("stale") = {}
            /\ PendingOf("reconnect") = {reconnectTimer})
    /\ [][(wsState = "closed" /\ wsState' # "closed") =>
            (wsState' = "connecting" /\ timers[reconnectTimer].left = 0)]_vars
    /\ (connectionState = "disconnected") ~> (connectionState # "disconnected")

\* the WebSocket closed after a message had come, a new one was created 3
\* seconds later and closed too, and the next attempt is a second away
C37_Witness ==
    /\ wsState = "closed"
    /\ connectionState = "disconnected"
    /\ staleTimer # NoTimer
    /\ telemetryData.sample.IsRaceOn = 1
    /\ reconnectTimer = 3
    /\ timers = (3 :> [kind |-> "reconnect", left |-> 1])

-----------------------------------------------------------------------------
(* Specification SpecPipeline: the telemetry server feeding the lap        *)
(* manager.  The game sends complete 324-byte Dash datagrams, race on or   *)
(* off, in lap 0 or lap 1, 33 or 34 ms apart; the server broadcasts them   *)
(* to the browser's WebSocket, which opens once the server has accepted    *)
(* it; the browser's onmessage runs once for every payload, in the order   *)
(* sent, and sets it as the data state; React renders later, and the       *)
(* effect of useLapManager runs on the data set last, so of the payloads   *)
(* handled between two renders the effect sees the last one.  All of it    *)
(* happens within the time the datagrams take, a fraction of a second: no  *)
(* second passes and the stale timeout, 3 s after a message, does not run. *)

MaxGameDatagrams == 3

BrowserSocket == 1

\* a complete datagram of the game with the given IsRaceOn and LapNumber
GameDatagram(raceOn, lap) ==
    LaidOut(PaddedLength, raceOn, PaddedDashStart,
            [name \in {"LapNumber"} |-> lap])

GameDatagrams == { GameDatagram(raceOn, lap) : raceOn \in {0, 1}, lap \in {0, 1} }

ReceiveGame ==
    \E msg \in GameDatagrams, gap \in Arrivals :
        /\ handled.count < MaxGameDatagrams
        /\ onMessage(msg, wall + gap)

\* the float x of a payload counted in units of 1 / per, for a float that is
\* a whole number of them
HasUnits(x, per) ==
    \/ Abs(x) <= Float32Bits
    \/ /\ (Abs(x) - Float32Bits) \div 8388608 \in 123 .. 150
       /\ ((8388608 + ((Abs(x) - Float32Bits) % 8388608)) * per)
                % Pow2(150 - (Abs(x) - Float32Bits) \div 8388608) = 0

InUnits(x, per) ==
    LET bits == Abs(x) - Float32Bits
        n == ((8388608 + (bits % 8388608)) * per) \div Pow2(150 - bits \div 8388608)
    IN  CASE Abs(x) <= Float32Bits -> per * x
          [] Abs(x) > Float32Bits /\ HasUnits(x, per) -> IF x < 0 THEN -n ELSE n

\* the fields of a payload that the effect reads
SampleFields ==
    {"IsRaceOn", "PositionX", "PositionZ", "LapNumber", "LastLap", "CurrentRaceTime",
     "DistanceTraveled", "CurrentLap", "Speed", "Brake", "Steer"}

\* a payload of a Dash datagram whose times are whole tenths of a second and
\* whose lengths and speed are whole metres and metres per second
HasSample(json) ==
    /\ SampleFields \subseteq DOMAIN json
    /\ \A name \in {"LastLap", "CurrentRaceTime", "CurrentLap"} : HasUnits(json[name], 10)
    /\ \A name \in {"PositionX", "PositionZ", "DistanceTraveled", "Speed"} :
            HasUnits(json[name], 1)

\* the fields of JSON.parse(event.data) that the effect reads, the seconds
\* of the payload in the tenths the lap manager counts
SampleOf(json) ==
    [IsRaceOn |-> json["IsRaceOn"],
     PositionX |-> InUnits(json["PositionX"], 1),
     PositionZ |-> InUnits(json["PositionZ"], 1),
     LapNumber |-> json["LapNumber"],
     LastLap |-> InUnits(json["LastLap"], 10),
     CurrentRaceTime |-> InUnits(json["CurrentRaceTime"], 10),
     DistanceTraveled |-> InUnits(json["DistanceTraveled"], 1),
     gamePaused |-> ("_gamePaused" \in DOMAIN json /\ json["_gamePaused"]),
     CurrentLap |-> InUnits(json["CurrentLap"], 10),
     Speed |-> InUnits(json["Speed"], 1),
     Brake |-> json["Brake"], Steer |-> json["Steer"]]

\* ws.onopen, which follows the server's connection event
browserOpen ==
    /\ readyState[BrowserSocket] = 1
    /\ wsOnOpen

\* ws.onmessage for the next payload the server sent
browserMessage ==
    /\ received < Len(delivered[BrowserSocket])
    /\ HasSample(delivered[BrowserSocket][received + 1].json)
    /\ received' = received + 1
    /\ wsOnMessage([ok |-> TRUE,
                    data |-> SampleOf(delivered[BrowserSocket][received + 1].json)])

NextPipeline ==
    \/ onConnection(BrowserSocket)
    \/ browserOpen
    \/ ReceiveGame
    \/ browserMessage
    \/ render

SpecPipeline == Init /\ [][NextPipeline]_vars

-----------------------------------------------------------------------------
(* Properties of SpecPipeline *)

\* C33: in the pipeline the server sets the paused indicator exactly on the
\* payloads whose IsRaceOn is 0; the lap manager returns on every such sample
\* before it reads the indicator, changing nothing; so the in-progress
\* invalid flag is never true and no lap is emitted invalid, or after a
\* pause was seen.
C33_PauseNeverSeenInPipeline ==
    /\ [](/\ \A ws \in Sockets : \A k \in 1 .. Len(delivered[ws]) :
                SampleOf(delivered[ws][k].json).gamePaused
                    <=> delivered[ws][k].json["IsRaceOn"] = 0
          /\ telemetryData.sample.gamePaused => ~Accepted(telemetryData.sample)
          /\ ~current.invalid
          /\ ~pausedSeen
          /\ \A i \in 1 .. Len(emitted) :
                ~emitted[i].pausedSeen /\ ~emitted[i].lap.invalid)
    /\ [][(telemetryData'.runs = telemetryData.runs + 1 /\ telemetryData.sample.gamePaused)
            => UNCHANGED <<current, lapTracker, laps, emitted>>]_vars

\* the browser received and rendered a lap 0 sample, then a payload with
\* the paused indicator, then a lap 1 sample: lap 0 was emitted valid
C33_Witness ==
    /\ received = 3
    /\ telemetryData.runs = 1
    /\ Len(delivered[BrowserSocket]) = 3
    /\ SampleOf(delivered[BrowserSocket][1].json).LapNumber = 0
    /\ ~SampleOf(delivered[BrowserSocket][1].json).gamePaused
    /\ SampleOf(delivered[BrowserSocket][2].json).gamePaused
    /\ telemetryData.sample.LapNumber = 1
    /\ Len(emitted) = 1
    /\ emitted[1].lap.lapNumber = 0
    /\ ~emitted[1].lap.invalid
    /\ input.seen

-----------------------------------------------------------------------------
(* LapHistory: the comparison selection.  Lap ids are numbers here; the    *)
(* laps prop is the set of the ids of its laps.                            *)

MaxLapIds == 3

LapIds == 1 .. MaxLapIds

\* prev.includes(lapId)
Includes(prev, lapId) == \E i \in 1 .. Len(prev) : prev[i] = lapId

\* the updater of handleSelect with [prev[0], lapId] in place of
\* [prev[1], lapId]
SelectUpdate_KeepOlder(prev, lapId) ==
    IF Includes(prev, lapId) THEN SelectSeq(prev, LAMBDA id : id # lapId)
    ELSE IF Len(prev) >= 2 THEN <<prev[1], lapId>>
    ELSE Append(prev, lapId)

\* the updater handleSelect passes to setSelectedLaps (prev[1] of the code is
\* prev[2] here)
SelectUpdate(prev, lapId) ==
    IF Includes(prev, lapId) THEN SelectSeq(prev, LAMBDA id : id # lapId)
    ELSE IF Len(prev) >= 2 THEN <<prev[2], lapId>>
    ELSE Append(prev, lapId)

\* a click on the row of a lap of the list
handleSelect(lapId) ==
    /\ lapId \in lapIds
    /\ selectedLaps' = SelectUpdate(selectedLaps, lapId)
    /\ historyLog' = [event |-> "select", lapId |-> lapId, before |-> selectedLaps,
                      called |-> FALSE, args |-> <<>>]
    /\ UNCHANGED lapIds
    /\ UNCHANGED <<lmVars, histVars, srvVars, probe, mockVars, telemetryData, received, connVars, lapsFetch>>

\* a click on Compare Laps (the button is disabled unless two are selected)
handleCompareClick ==
    LET found == Len(selectedLaps) = 2
                    /\ selectedLaps[1] \in lapIds /\ selectedLaps[2] \in lapIds
    IN  /\ historyLog' = [event |-> "compare", lapId |-> 0, before |-> selectedLaps,
                          called |-> found,
                          args |-> IF found THEN selectedLaps ELSE <<>>]
        /\ UNCHANGED <<selectedLaps, lapIds>>
        /\ UNCHANGED <<lmVars, histVars, srvVars, probe, mockVars, telemetryData, received, connVars, lapsFetch>>

\* setLaps(prev => [...prev, lap]): a lap with a new id joins the list
lapAdded(lapId) ==
    /\ lapId \notin lapIds
    /\ lapIds' = lapIds \cup {lapId}
    /\ historyLog' = [event |-> "laps", lapId |-> lapId, before |-> selectedLaps,
                      called |-> FALSE, args |-> <<>>]
    /\ UNCHANGED selectedLaps
    /\ UNCHANGED <<lmVars, histVars, srvVars, probe, mockVars, telemetryData, received, connVars, lapsFetch>>

\* setLaps([]): the list is emptied, the selection is not
lapsCleared ==
    /\ lapIds # {}
    /\ lapIds' = {}
    /\ historyLog' = [event |-> "laps", lapId |-> 0, before |-> selectedLaps,
                      called |-> FALSE, args |-> <<>>]
    /\ UNCHANGED selectedLaps
    /\ UNCHANGED <<lmVars, histVars, srvVars, probe, mockVars, telemetryData, received, connVars, lapsFetch>>

NextSelect ==
    \/ \E lapId \in LapIds : handleSelect(lapId)
    \/ handleCompareClick
    \/ \E lapId \in LapIds : lapAdded(lapId)
    \/ lapsCleared

SpecSelect == Init /\ [][NextSelect]_vars

-----------------------------------------------------------------------------
(* Properties of SpecSelect *)

\* C39: the selection is a list of at most two lap ids, no id twice; a
\* click on a selected lap removes its id and keeps the other, a click on an
\* unselected lap while two are selected leaves the newer of the two
\* followed by the clicked id, and otherwise appends the clicked id;
\* onCompare is called only with exactly two ids selected, both of laps in
\* the list, and with these two.
C39_SelectionAtMostTwo ==
    /\ Len(selectedLaps) <= 2
    /\ \A i, j \in 1 .. Len(selectedLaps) : i # j => selectedLaps[i] # selectedLaps[j]
    /\ historyLog.event = "select" =>
          LET prev == historyLog.before
              lapId == historyLog.lapId
          IN  IF Includes(prev, lapId)
              THEN /\ ~Includes(selectedLaps, lapId)
                   /\ Len(selectedLaps) = Len(prev) - 1
                   /\ \A i \in 1 .. Len(prev) :
                         prev[i] # lapId => Includes(selectedLaps, prev[i])
              ELSE IF Len(prev) = 2
              THEN selectedLaps = <<prev[2], lapId>>
              ELSE selectedLaps = prev \o <<lapId>>
    /\ historyLog.called =>
          /\ historyLog.event = "compare"
          /\ Len(selectedLaps) = 2
          /\ selectedLaps[1] \in lapIds /\ selectedLaps[2] \in lapIds
          /\ historyLog.args = selectedLaps

\* with laps 1 and 2 selected, in this order, lap 3 was clicked: the
\* selection is 2, 3
C39_Witness ==
    /\ historyLog.event = "select"
    /\ historyLog.before = <<1, 2>>
    /\ historyLog.lapId = 3
    /\ selectedLaps = <<2, 3>>

====
